---- MODULE Spec2Model ----
(***************************************************************************)
(* Honeywell Galaxy MQTT bridge: the coordinator of                        *)
(* custom_components/honeywell_galaxy/coordinator.py.                      *)
(*                                                                         *)
(* Strings are sequences of one-character strings, so that the topic       *)
(* matcher can be modelled character by character, as the regular          *)
(* expression it builds works.                                             *)
(***************************************************************************)
EXTENDS Integers, Sequences, FiniteSets, TLC

VARIABLES
    client,         \* self.client: "None" or "Client"
    connected,      \* self.connected
    subscriptions,  \* self.subscriptions: insertion-ordered dict, as a sequence of
                    \* [pattern, callbacks] entries with distinct patterns
    started,        \* async_config_entry_first_refresh has run
    loopRunning,    \* client.loop_start() was called and loop_stop() was not
    wire,           \* the calls the last operation made on the paho client
    called,         \* the callback invocations the last operation made
    lastOp,         \* the last operation and its arguments
    raised,         \* the last operation raised to its caller
    pending,        \* patterns registered while not connected, no wire subscribe since
    replayed,       \* the pending patterns the last operation, a connect, took over
    released,       \* patterns deleted by unsubscribe and not registered again
    closed,         \* async_shutdown has run
    mtopic,         \* _topic_matches: argument topic
    mpattern,       \* _topic_matches: argument pattern
    mdone,          \* _topic_matches: the call has returned
    mresult,        \* _topic_matches: returned value
    attempts,       \* the coordinator.publish calls the last button press made
    log_lines,      \* PrinterLogSensor._log_lines
    printer_state,  \* PrinterLogSensor._state
    received,       \* the payloads given to PrinterLogSensor._async_update_state so far
    added,          \* the entities whose async_added_to_hass has run
    entity_state,   \* per entity: _is_on of a zone or an output, _state of a display
    ready,          \* the callbacks the event loop has still to run, oldest first
    msgs,           \* number of messages dispatched to the entities' topics so far
    lastSeen,       \* per entity: number and payload of the last message on its topic
    applied,        \* per entity: number of the message whose update ran last
    disc_pc,        \* _discover_prio_outputs: "idle", "poll", "window" or "done"
    polls,          \* _discover_prio_outputs: turns of the wait loop done
    discovered,     \* _discover_prio_outputs: discovered_outputs
    returned,       \* _discover_prio_outputs: the set it returned
    windowTopics,   \* the topics of the messages dispatched during the window
    windowRepeats,  \* those of them dispatched more than once during the window
    d_pc,           \* on_message in steps: "idle", "exact", "scan" or "raised"
    d_topic,        \* on_message in steps: msg.topic
    d_pos,          \* on_message in steps: entries the items() iterator has passed
    d_size,         \* on_message in steps: size of the dict when the scan began
    d_dirty,        \* on_message in steps: the keys changed since the scan began
    d_error,        \* on_message in steps: the exception that left on_message
    removed,        \* the entities the host has removed
    c_pc,           \* on_connect in steps: "idle", "flagged" or "replay"
    c_keys,         \* on_connect in steps: topics_to_subscribe
    c_pos,          \* on_connect in steps: topics the replay loop has passed
    e_pc,           \* subscribe or unsubscribe in steps on the event loop: "idle",
                    \* "sub_registered", "sub_send", "unsub_removed",
                    \* "unsub_deleted" or "unsub_send"
    e_topic,        \* subscribe or unsubscribe in steps: topic
    e_cb,           \* subscribe or unsubscribe in steps: callback
    tried,          \* per pattern: who called client.subscribe for it since the
                    \* session began, "replay" and "subscribe"
    lastWire,       \* per pattern: the last call made on the client for it since
                    \* the session began: "none", "subscribe" or "unsubscribe"
    it_pc,          \* the callback loop of on_message: "idle", "iter" or "done"
    it_topic,       \* the callback loop of on_message: msg.topic
    it_key,         \* the callback loop of on_message: the key whose list it walks
    it_pos,         \* the callback loop of on_message: index of the list iterator
    it_attached,    \* the list it walks is still the one the registry holds
    it_stayed,      \* the callbacks of the list not removed since the loop began
    it_invoked      \* the callbacks the loop has called

coordVars == <<client, connected, subscriptions, started, loopRunning,
               wire, called, lastOp, raised, pending, replayed, released, closed>>
matchVars == <<mtopic, mpattern, mdone, mresult>>
\* what the coordinator's operations never touch
pressVars == <<attempts>>
printerVars == <<log_lines, printer_state, received>>
bridgeVars == <<added, entity_state, ready, msgs, lastSeen, applied>>
discVars == <<disc_pc, polls, discovered, returned, windowTopics, windowRepeats>>
raceVars == <<d_pc, d_topic, d_pos, d_size, d_dirty, d_error>>
lifeVars == <<removed>>
stepVars == <<c_pc, c_keys, c_pos, e_pc, e_topic, e_cb, tried, lastWire,
              it_pc, it_topic, it_key, it_pos, it_attached, it_stayed, it_invoked>>
restVars == <<matchVars, pressVars, printerVars, bridgeVars, discVars, raceVars,
              lifeVars, stepVars>>
\* what the steps of one part of the integration never touch
notMatch == <<pressVars, printerVars, bridgeVars, discVars, raceVars,
              lifeVars, stepVars>>
notPress == <<matchVars, printerVars, bridgeVars, discVars, raceVars,
              lifeVars, stepVars>>
notPrinter == <<matchVars, pressVars, bridgeVars, discVars, raceVars,
                lifeVars, stepVars>>
notBridge == <<matchVars, pressVars, printerVars, discVars, raceVars,
               lifeVars, stepVars>>
notDisc == <<matchVars, pressVars, printerVars, bridgeVars, raceVars,
             lifeVars, stepVars>>
notRace == <<matchVars, pressVars, printerVars, bridgeVars, discVars,
             lifeVars, stepVars>>
notLife == <<matchVars, pressVars, printerVars, bridgeVars, discVars, raceVars,
            stepVars>>
notStep == <<matchVars, pressVars, printerVars, bridgeVars, discVars, raceVars,
            lifeVars>>
vars == <<client, connected, subscriptions, started, loopRunning,
          wire, called, lastOp, raised, pending, replayed, released, closed,
          mtopic, mpattern, mdone, mresult,
          attempts, log_lines, printer_state, received,
          added, entity_state, ready, msgs, lastSeen, applied,
          disc_pc, polls, discovered, returned, windowTopics, windowRepeats,
          d_pc, d_topic, d_pos, d_size, d_dirty, d_error,
          removed,
          c_pc, c_keys, c_pos, e_pc, e_topic, e_cb, tried, lastWire,
          it_pc, it_topic, it_key, it_pos, it_attached, it_stayed, it_invoked>>

----------------------------------------------------------------------------
(* Bounds *)

\* number of messages dispatched to the entities in BridgeSpec
MaxMessages == 2

\* number of payloads given to the printer log sensor in PrinterSpec
MaxPushes == 12

\* number of payloads given to the printer log sensor in RenderSpec
MaxRenderPushes == 3

\* longest topic and pattern given to _topic_matches in MatchSpec
MaxLen == 3

\* most callback registrations held by the registry at once in Spec
MaxRegistrations == 2

\* most callback registrations held under one pattern in RecordsSpec
MaxRecords == 3

----------------------------------------------------------------------------
(* Strings *)

NL == "\n"

\* characters of concrete topics (MQTT forbids + and # in them)
TopicChars == {"a", "b", "/", ".", NL}

\* characters of subscription patterns
PatternChars == {"a", "b", "/", ".", "+", "#"}

SeqsUpTo(S, n) == UNION {[1..k -> S] : k \in 0..n}

\* str.replace(old, new) for a one-character old
RECURSIVE Replace(_, _, _)
Replace(s, old, new) ==
    IF s = <<>> THEN <<>>
    ELSE (IF Head(s) = old THEN new ELSE <<Head(s)>>) \o Replace(Tail(s), old, new)

----------------------------------------------------------------------------
(* _topic_matches *)

\* pattern.replace("+", "[^/]+").replace("#", ".*")
PatternRe(pattern) ==
    Replace(Replace(pattern, "+", <<"[", "^", "/", "]", "+">>), "#", <<".", "*">>)

\* re's parse of the expression: the class [^/] with its + quantifier, . with
\* its * quantifier, a bare . and literal characters
RECURSIVE Compile(_)
Compile(re) ==
    IF re = <<>> THEN <<>>
    ELSE IF Head(re) = "[" THEN <<"[^/]+">> \o Compile(SubSeq(re, 6, Len(re)))
    ELSE IF Head(re) = "." /\ Len(re) >= 2 /\ re[2] = "*"
         THEN <<".*">> \o Compile(SubSeq(re, 3, Len(re)))
    ELSE <<Head(re)>> \o Compile(Tail(re))

\* re.match of ^tokens$ on s, from token i and position j (backtracking)
RECURSIVE ReMatch(_, _, _, _)
ReMatch(tokens, s, i, j) ==
    IF i > Len(tokens)
    THEN \* $ matches at the end and before a newline that ends the string
         j = Len(s) + 1 \/ (j = Len(s) /\ s[j] = NL)
    ELSE IF tokens[i] = "[^/]+"
    THEN \E k \in (j+1)..(Len(s)+1) :
            /\ \A m \in j..(k-1) : s[m] # "/"
            /\ ReMatch(tokens, s, i+1, k)
    ELSE IF tokens[i] = ".*"
    THEN \E k \in j..(Len(s)+1) :
            /\ \A m \in j..(k-1) : s[m] # NL
            /\ ReMatch(tokens, s, i+1, k)
    ELSE IF tokens[i] = "."
    THEN j <= Len(s) /\ s[j] # NL /\ ReMatch(tokens, s, i+1, j+1)
    ELSE j <= Len(s) /\ s[j] = tokens[i] /\ ReMatch(tokens, s, i+1, j+1)

topic_matches(topic, pattern) ==
    IF pattern = topic THEN TRUE
    ELSE ReMatch(Compile(PatternRe(pattern)), topic, 1, 1)

----------------------------------------------------------------------------
(* Inputs of the coordinator *)

\* topics of inbound messages: a/b, a/c and b
Topics == {<<"a", "/", "b">>, <<"a", "/", "c">>, <<"b">>}

\* patterns entities and discovery register: a/b, a/+ and a/#
Patterns == {<<"a", "/", "b">>, <<"a", "/", "+">>, <<"a", "/", "#">>}

\* callback handles
Callbacks == {"cb1", "cb2"}

\* raw message payloads: b"ON" and the undecodable b"\xff"
RawPayloads == {<<79, 78>>, <<255>>}

\* topics and payloads of publish calls
PubTopics == {<<"a", "/", "b">>}
PubPayloads == {<<"O", "N">>, <<"A">>}

\* result codes of on_connect: accepted, not authorised, another refusal
ConnectCodes == {0, 5, 1}

NoTopic == <<>>
NoCallback == "none"
NoPayload == <<>>

Op(name, topic, cb, payload, rc) ==
    [op |-> name, topic |-> topic, cb |-> cb, payload |-> payload, rc |-> rc]

\* what a call on the paho client can answer; it is called only with a client
\* and while connected
Answers(cl, conn, all) == IF cl # "None" /\ conn THEN all ELSE {"ok"}

\* a call on the paho client, with what the library answered
WireOp(name, topic, payload, result) ==
    [op |-> name, topic |-> topic, payload |-> payload, qos |-> 0,
     retain |-> FALSE, result |-> result]

----------------------------------------------------------------------------
(* The registry: dict[str, list[Callable]] in insertion order *)

Keys(subs) == [i \in 1..Len(subs) |-> subs[i].pattern]

KeySet(subs) == {subs[i].pattern : i \in 1..Len(subs)}

HasKey(subs, topic) == topic \in KeySet(subs)

IndexOf(subs, topic) == CHOOSE i \in 1..Len(subs) : subs[i].pattern = topic

RECURSIVE TotalRegistrations(_)
TotalRegistrations(subs) ==
    IF subs = <<>> THEN 0
    ELSE Len(Head(subs).callbacks) + TotalRegistrations(Tail(subs))

\* a list.remove(x) that drops the last occurrence
RECURSIVE ListRemoveLast(_, _)
ListRemoveLast(list, x) ==
    IF list = <<>> THEN <<>>
    ELSE IF list[Len(list)] = x THEN SubSeq(list, 1, Len(list) - 1)
    ELSE Append(ListRemoveLast(SubSeq(list, 1, Len(list) - 1), x), list[Len(list)])

\* list.remove(x): drops the first occurrence
RECURSIVE ListRemove(_, _)
ListRemove(list, x) ==
    IF list = <<>> THEN <<>>
    ELSE IF Head(list) = x THEN Tail(list)
    ELSE <<Head(list)>> \o ListRemove(Tail(list), x)

Range(list) == {list[i] : i \in 1..Len(list)}

InList(list, x) == \E i \in 1..Len(list) : list[i] = x

\* del d[key]
DelKey(subs, topic) ==
    LET k == IndexOf(subs, topic)
    IN SubSeq(subs, 1, k-1) \o SubSeq(subs, k+1, Len(subs))

\* subscribe, lines 172-174
Register(subs, topic, cb) ==
    IF HasKey(subs, topic)
    THEN [subs EXCEPT ![IndexOf(subs, topic)].callbacks = Append(@, cb)]
    ELSE Append(subs, [pattern |-> topic, callbacks |-> <<cb>>])

\* an unsubscribe without the del of line 196
UnregisterKeepKey(subs, topic, cb) ==
    IF ~HasKey(subs, topic) THEN subs
    ELSE LET k == IndexOf(subs, topic)
         IN [subs EXCEPT ![k].callbacks =
                IF InList(@, cb) THEN ListRemove(@, cb) ELSE @]

\* an unsubscribe that drops the oldest callback of the pattern when the one
\* it was given is not in the list
UnregisterAny(subs, topic, cb) ==
    IF ~HasKey(subs, topic) THEN subs
    ELSE LET k == IndexOf(subs, topic)
             rest == IF InList(subs[k].callbacks, cb)
                     THEN ListRemove(subs[k].callbacks, cb)
                     ELSE Tail(subs[k].callbacks)
         IN IF rest = <<>> THEN DelKey(subs, topic)
            ELSE [subs EXCEPT ![k].callbacks = rest]

\* unsubscribe, lines 193-197
Unregister(subs, topic, cb) ==
    IF ~HasKey(subs, topic) THEN subs
    ELSE LET k == IndexOf(subs, topic)
             rest == IF InList(subs[k].callbacks, cb)
                     THEN ListRemove(subs[k].callbacks, cb)
                     ELSE subs[k].callbacks
         IN IF rest = <<>> THEN DelKey(subs, topic)
            ELSE [subs EXCEPT ![k].callbacks = rest]

----------------------------------------------------------------------------
(* Dispatch *)

Min(S) == CHOOSE x \in S : \A y \in S : x <= y

\* a scan without the break of line 140: the last matching entry wins
LastMatch(subs, topic) ==
    LET M == {i \in 1..Len(subs) : topic_matches(topic, subs[i].pattern)}
    IN IF M = {} THEN 0 ELSE CHOOSE x \in M : \A y \in M : x >= y

\* the wildcard scan of on_message, lines 130-140: the entry it stops at, 0 if none
FirstMatch(subs, topic) ==
    LET M == {i \in 1..Len(subs) : topic_matches(topic, subs[i].pattern)}
    IN IF M = {} THEN 0 ELSE Min(M)

\* a dispatch without the exact-match test of line 118
ResolveScanOnly(subs, topic) ==
    LET M == {i \in 1..Len(subs) : topic_matches(topic, subs[i].pattern)}
    IN IF M = {} THEN <<>> ELSE subs[Min(M)].callbacks

\* a dispatch that gives a message nothing resolves to the first entry
ResolveCatchAll(subs, topic) ==
    IF HasKey(subs, topic) THEN subs[IndexOf(subs, topic)].callbacks
    ELSE IF FirstMatch(subs, topic) = 0
         THEN (IF subs = <<>> THEN <<>> ELSE subs[1].callbacks)
    ELSE subs[FirstMatch(subs, topic)].callbacks

\* the callbacks on_message invokes for a topic, lines 118-140
Resolve(subs, topic) ==
    IF HasKey(subs, topic) THEN subs[IndexOf(subs, topic)].callbacks
    ELSE IF FirstMatch(subs, topic) = 0 THEN <<>>
    ELSE subs[FirstMatch(subs, topic)].callbacks

\* bytes below 0x80 decode to themselves; 0xff is valid nowhere in UTF-8
Lowercase == <<"a", "b", "c", "d", "e", "f", "g", "h", "i", "j", "k", "l", "m",
               "n", "o", "p", "q", "r", "s", "t", "u", "v", "w", "x", "y", "z">>

Uppercase == <<"A", "B", "C", "D", "E", "F", "G", "H", "I", "J", "K", "L", "M",
               "N", "O", "P", "Q", "R", "S", "T", "U", "V", "W", "X", "Y", "Z">>

\* the character of an ASCII byte: newline, space, letters; "?" for the others
Chr(b) ==
    IF b = 10 THEN NL
    ELSE IF b = 32 THEN " "
    ELSE IF b >= 65 /\ b <= 90 THEN Uppercase[b - 64]
    ELSE IF b >= 97 /\ b <= 122 THEN Lowercase[b - 96]
    ELSE "?"

ValidUtf8(raw) == \A i \in 1..Len(raw) : raw[i] < 128

\* str(bytes): the repr b'...' with \xNN escapes
RECURSIVE ReprBody(_)
ReprBody(raw) ==
    IF raw = <<>> THEN <<>>
    ELSE (IF Head(raw) < 128 THEN <<Chr(Head(raw))>> ELSE <<"\\", "x", "f", "f">>)
         \o ReprBody(Tail(raw))

\* on_message, lines 111-115
Decode(raw) ==
    IF ValidUtf8(raw) THEN [i \in 1..Len(raw) |-> Chr(raw[i])]
    ELSE <<"b", "'">> \o ReprBody(raw) \o <<"'">>

----------------------------------------------------------------------------
(* What each operation puts on the wire *)

\* a replay that walks the keys backwards
ReplayWireReversed(subs, results) ==
    [i \in 1..Len(subs) |->
        WireOp("subscribe", subs[Len(subs) + 1 - i].pattern, NoPayload, results[i])]

\* a replay that leaves out the patterns that have more than one callback
ReplayWireSingles(subs, results) ==
    LET keep == SelectSeq(subs, LAMBDA e : Len(e.callbacks) = 1)
    IN [i \in 1..Len(keep) |-> WireOp("subscribe", keep[i].pattern, NoPayload, "ok")]

\* a replay that gives up at the first client.subscribe that reports failure
ReplayWireStopAtFailure(subs, results) ==
    LET failed == {i \in 1..Len(subs) : results[i] = "err"}
        last == IF failed = {} THEN Len(subs) ELSE Min(failed)
    IN [i \in 1..last |-> WireOp("subscribe", subs[i].pattern, NoPayload, results[i])]

\* on_connect, lines 84-92: one client.subscribe per key, in key order; results[i]
\* is what the library answers for the i-th
ReplayWire(subs, results) ==
    [i \in 1..Len(subs) |-> WireOp("subscribe", subs[i].pattern, NoPayload, results[i])]

\* a subscribe that calls the client whenever there is one
SubscribeWireEager(cl, conn, topic, result) ==
    IF cl # "None" THEN <<WireOp("subscribe", topic, NoPayload, result)>>
    ELSE <<>>

\* subscribe, lines 179-189
SubscribeWire(cl, conn, topic, result) ==
    IF cl # "None" /\ conn THEN <<WireOp("subscribe", topic, NoPayload, result)>>
    ELSE <<>>

\* an unsubscribe that releases the broker subscription without looking at
\* self.connected
UnsubscribeWireAlways(subs, cl, conn, topic, cb) ==
    IF HasKey(subs, topic) /\ ~HasKey(Unregister(subs, topic, cb), topic)
    THEN <<WireOp("unsubscribe", topic, NoPayload, "ok")>>
    ELSE <<>>

\* an unsubscribe that releases the broker subscription whenever it removes a
\* callback, other callbacks left or not
UnsubscribeWireOnRemoval(subs, cl, conn, topic, cb) ==
    IF HasKey(subs, topic) /\ InList(subs[IndexOf(subs, topic)].callbacks, cb)
       /\ cl # "None" /\ conn
    THEN <<WireOp("unsubscribe", topic, NoPayload, "ok")>>
    ELSE <<>>

\* unsubscribe, lines 196-199: only when the pattern's list became empty
UnsubscribeWire(subs, cl, conn, topic, cb) ==
    IF HasKey(subs, topic) /\ ~HasKey(Unregister(subs, topic, cb), topic)
       /\ cl # "None" /\ conn
    THEN <<WireOp("unsubscribe", topic, NoPayload, "ok")>>
    ELSE <<>>

\* a publish without the self.connected test of line 208
PublishWireUnguarded(cl, conn, topic, payload, result) ==
    IF cl = "None" THEN <<>>
    ELSE <<WireOp("publish", topic, payload, result)>>

\* publish, lines 204-219
PublishWire(cl, conn, topic, payload, result) ==
    IF cl = "None" THEN <<>>
    ELSE IF ~conn THEN <<>>
    ELSE <<WireOp("publish", topic, payload, result)>>

\* publish, lines 212-219: whatever client.publish raises is caught and logged
PublishRaises(cl, conn, result) == FALSE

\* a dispatch that gives up at the first callback that raises
InvocationsAbort(subs, topic, payload, bad) ==
    LET cbs == Resolve(subs, topic)
        stop == IF \E i \in 1..Len(cbs) : cbs[i] \in bad
                THEN Min({i \in 1..Len(cbs) : cbs[i] \in bad}) ELSE Len(cbs)
    IN [i \in 1..stop |->
            [cb |-> cbs[i], topic |-> topic, payload |-> payload,
             raises |-> cbs[i] \in bad]]

\* a dispatch that calls the callbacks of every pattern of the registry
InvocationsBroadcast(subs, topic, payload, bad) ==
    LET RECURSIVE All(_)
        All(rest) == IF rest = <<>> THEN <<>>
                     ELSE Head(rest).callbacks \o All(Tail(rest))
        cbs == IF Resolve(subs, topic) = <<>> THEN <<>> ELSE All(subs)
    IN [i \in 1..Len(cbs) |->
            [cb |-> cbs[i], topic |-> topic, payload |-> payload,
             raises |-> cbs[i] \in bad]]

\* on_message, lines 121-126 and 134-139: each callback of the resolved list is
\* called in order; bad are the callbacks that raise, which is caught and logged
Invocations(subs, topic, payload, bad) ==
    LET cbs == Resolve(subs, topic)
    IN [i \in 1..Len(cbs) |->
            [cb |-> cbs[i], topic |-> topic, payload |-> payload,
             raises |-> cbs[i] \in bad]]

----------------------------------------------------------------------------
(* The coordinator *)

\* GalaxyCoordinator.__init__
CoordInit ==
    /\ client = "None"
    /\ connected = FALSE
    /\ subscriptions = <<>>
    /\ started = FALSE
    /\ loopRunning = FALSE
    /\ wire = <<>>
    /\ called = <<>>
    /\ lastOp = Op("init", NoTopic, NoCallback, NoPayload, 0)
    /\ raised = FALSE
    /\ pending = {}
    /\ replayed = {}
    /\ released = {}
    /\ closed = FALSE

MatchIdle ==
    /\ mtopic = <<>>
    /\ mpattern = <<>>
    /\ mdone = FALSE
    /\ mresult = FALSE

\* no button was pressed
PressIdle == attempts = <<>>

\* PrinterLogSensor.__init__
PrinterIdle ==
    /\ log_lines = <<>>
    /\ printer_state = <<>>
    /\ received = <<>>

\* a physical zone, a physical output and a keypad display line
Entities == {"zone", "output", "display"}

\* two physical zones, of numbers 1 and 2, and a physical output of number 1
NumberedEntities == {"zone", "zone2", "output"}

\* the virtual zone of number 1, a switch
SwitchEntities == {"switch"}

AllEntities == Entities \cup NumberedEntities \cup SwitchEntities

\* the entities that are zones
Zones == {"zone", "zone2", "switch"}

\* the __init__ of the entities, and an event loop with nothing to run
BridgeIdle ==
    /\ added = {}
    /\ entity_state = [e \in AllEntities |-> IF e = "display" THEN <<>> ELSE FALSE]
    /\ ready = <<>>
    /\ msgs = 0
    /\ lastSeen = [e \in AllEntities |-> [id |-> 0, raw |-> <<>>]]
    /\ applied = [e \in AllEntities |-> 0]

\* no discovery routine was called
DiscIdle ==
    /\ disc_pc = "idle"
    /\ polls = 0
    /\ discovered = {}
    /\ returned = {}
    /\ windowTopics = {}
    /\ windowRepeats = {}

\* the paho thread is in no on_message
RaceIdle ==
    /\ d_pc = "idle"
    /\ d_topic = <<>>
    /\ d_pos = 0
    /\ d_size = 0
    /\ d_dirty = FALSE
    /\ d_error = "none"

\* the host has removed no entity
LifeIdle == removed = {}

\* no operation of the coordinator is under way and no session has begun
StepIdle ==
    /\ c_pc = "idle"
    /\ c_keys = <<>>
    /\ c_pos = 0
    /\ e_pc = "idle"
    /\ e_topic = <<>>
    /\ e_cb = "none"
    /\ tried = [p \in Patterns |-> {}]
    /\ lastWire = [p \in Patterns |-> "none"]
    /\ it_pc = "idle"
    /\ it_topic = <<>>
    /\ it_key = <<>>
    /\ it_pos = 0
    /\ it_attached = FALSE
    /\ it_stayed = {}
    /\ it_invoked = {}

\* the entities as they are constructed
HostIdle ==
    /\ PressIdle /\ PrinterIdle /\ BridgeIdle /\ DiscIdle /\ RaceIdle /\ LifeIdle
    /\ StepIdle

Init == CoordInit /\ MatchIdle /\ HostIdle

\* a _connect_mqtt that starts the network loop whatever connect answered
connect_mqtt_loop_always ==
    /\ ~started
    /\ \E outcome \in {"no_client", "refused", "connect_exc", "ok"} :
        /\ client' = IF outcome = "no_client" THEN "None" ELSE "Client"
        /\ loopRunning' = (outcome # "no_client")
        /\ connected' = IF outcome \in {"refused", "connect_exc"} THEN FALSE ELSE connected
        /\ wire' = IF outcome = "no_client" THEN <<>>
                   ELSE <<WireOp("connect", NoTopic, NoPayload,
                                 IF outcome = "ok" THEN "ok"
                                 ELSE IF outcome = "refused" THEN "err" ELSE "exc")>>
        /\ lastOp' = Op("connect_mqtt", NoTopic, NoCallback, NoPayload, 0)
    /\ started' = TRUE
    /\ called' = <<>>
    /\ raised' = FALSE
    /\ replayed' = {}
    /\ UNCHANGED <<subscriptions, pending, released, closed, restVars>>

\* async_config_entry_first_refresh -> _connect_mqtt. outcome: "no_client" (creating
\* the client raised), "refused" (connect returned an error code), "connect_exc"
\* (connect raised), "ok" (connect succeeded and the loop was started)
connect_mqtt ==
    /\ ~started
    /\ \E outcome \in {"no_client", "refused", "connect_exc", "ok"} :
        /\ client' = IF outcome = "no_client" THEN "None" ELSE "Client"
        /\ loopRunning' = (outcome = "ok")
        /\ connected' = IF outcome \in {"refused", "connect_exc"} THEN FALSE ELSE connected
        /\ wire' = IF outcome = "no_client" THEN <<>>
                   ELSE <<WireOp("connect", NoTopic, NoPayload,
                                 IF outcome = "ok" THEN "ok"
                                 ELSE IF outcome = "refused" THEN "err" ELSE "exc")>>
        /\ lastOp' = Op("connect_mqtt", NoTopic, NoCallback, NoPayload, 0)
    /\ started' = TRUE
    /\ called' = <<>>
    /\ raised' = FALSE
    /\ replayed' = {}
    /\ UNCHANGED <<subscriptions, pending, released, closed, restVars>>

\* an on_connect that takes every result code for an accepted session
on_connect_any_code ==
    /\ loopRunning
    /\ ~connected
    /\ \E rc \in ConnectCodes :
        /\ connected' = TRUE
        /\ lastOp' = Op("on_connect", NoTopic, NoCallback, NoPayload, rc)
        /\ \E results \in [1..Len(subscriptions) -> {"ok", "err"}] :
                wire' = ReplayWire(subscriptions, results)
        /\ replayed' = pending
        /\ pending' = {}
    /\ called' = <<>>
    /\ raised' = FALSE
    /\ UNCHANGED <<client, subscriptions, started, loopRunning, released, closed, restVars>>

\* on_connect(client, userdata, flags, rc), called by the loop on CONNACK
on_connect ==
    /\ loopRunning
    /\ ~connected
    /\ \E rc \in ConnectCodes :
        /\ connected' = (rc = 0)
        /\ lastOp' = Op("on_connect", NoTopic, NoCallback, NoPayload, rc)
        /\ IF rc = 0
           THEN /\ \E results \in [1..Len(subscriptions) -> {"ok", "err"}] :
                        wire' = ReplayWire(subscriptions, results)
                /\ replayed' = pending
                /\ pending' = {}
           ELSE /\ wire' = <<>>
                /\ replayed' = {}
                /\ UNCHANGED pending
    /\ called' = <<>>
    /\ raised' = FALSE
    /\ UNCHANGED <<client, subscriptions, started, loopRunning, released, closed, restVars>>

\* an on_disconnect that forgets the registry
on_disconnect_clears ==
    /\ loopRunning
    /\ connected' = FALSE
    /\ subscriptions' = <<>>
    /\ pending' = {}
    /\ wire' = <<>>
    /\ called' = <<>>
    /\ lastOp' = Op("on_disconnect", NoTopic, NoCallback, NoPayload, 0)
    /\ raised' = FALSE
    /\ replayed' = {}
    /\ UNCHANGED <<client, started, loopRunning, released, closed, restVars>>

\* on_disconnect(client, userdata, rc), called by the loop
on_disconnect ==
    /\ loopRunning
    /\ connected' = FALSE
    /\ wire' = <<>>
    /\ called' = <<>>
    /\ lastOp' = Op("on_disconnect", NoTopic, NoCallback, NoPayload, 0)
    /\ raised' = FALSE
    /\ replayed' = {}
    /\ UNCHANGED <<client, subscriptions, started, loopRunning, pending, released,
                   closed, restVars>>

\* an on_message without the except of line 113: the UnicodeDecodeError leaves it
DispatchStrict(topic, raw, bad) ==
    /\ called' = IF ValidUtf8(raw)
                 THEN Invocations(subscriptions, topic, Decode(raw), bad) ELSE <<>>
    /\ lastOp' = Op("on_message", topic, NoCallback, raw, 0)
    /\ wire' = <<>>
    /\ raised' = ~ValidUtf8(raw)
    /\ replayed' = {}
    /\ UNCHANGED <<client, connected, subscriptions, started, loopRunning,
                   pending, released, closed>>

\* the body of on_message for a message of topic and raw payload, bad being
\* the callbacks that raise
Dispatch(topic, raw, bad) ==
    /\ called' = Invocations(subscriptions, topic, Decode(raw), bad)
    /\ lastOp' = Op("on_message", topic, NoCallback, raw, 0)
    /\ wire' = <<>>
    /\ raised' = FALSE
    /\ replayed' = {}
    /\ UNCHANGED <<client, connected, subscriptions, started, loopRunning,
                   pending, released, closed>>

\* on_message(client, userdata, msg), called by the loop while the session is up
on_message ==
    /\ loopRunning
    /\ connected
    /\ \E topic \in Topics, raw \in RawPayloads :
       \E bad \in SUBSET Range(Resolve(subscriptions, topic)) :
          Dispatch(topic, raw, bad)
    /\ UNCHANGED restVars

\* the body of subscribe(topic, callback), result being what client.subscribe
\* answers
DoSubscribe(topic, cb, result) ==
    /\ subscriptions' = Register(subscriptions, topic, cb)
    /\ wire' = SubscribeWire(client, connected, topic, result)
    /\ pending' = IF wire' = <<>> THEN pending \cup {topic} ELSE pending \ {topic}
    /\ released' = released \ {topic}
    /\ lastOp' = Op("subscribe", topic, cb, NoPayload, 0)
    /\ replayed' = {}
    /\ called' = <<>>
    /\ raised' = FALSE
    /\ UNCHANGED <<client, connected, started, loopRunning, closed>>

\* GalaxyCoordinator.subscribe(topic, callback)
subscribe ==
    /\ started
    /\ TotalRegistrations(subscriptions) < MaxRegistrations
    /\ \E topic \in Patterns, cb \in Callbacks,
          result \in Answers(client, connected, {"ok", "err"}) :
          DoSubscribe(topic, cb, result)
    /\ UNCHANGED restVars

\* the body of unsubscribe(topic, callback)
DoUnsubscribe(topic, cb) ==
    /\ subscriptions' = Unregister(subscriptions, topic, cb)
    /\ wire' = UnsubscribeWire(subscriptions, client, connected, topic, cb)
    /\ pending' = pending \cap KeySet(subscriptions')
    /\ released' = IF HasKey(subscriptions, topic) /\ ~HasKey(subscriptions', topic)
                   THEN released \cup {topic} ELSE released
    /\ lastOp' = Op("unsubscribe", topic, cb, NoPayload, 0)
    /\ replayed' = {}
    /\ called' = <<>>
    /\ raised' = FALSE
    /\ UNCHANGED <<client, connected, started, loopRunning, closed>>

\* GalaxyCoordinator.unsubscribe(topic, callback)
unsubscribe ==
    /\ started
    /\ \E topic \in Patterns, cb \in Callbacks : DoUnsubscribe(topic, cb)
    /\ UNCHANGED restVars

\* GalaxyCoordinator.publish(topic, payload); result is what client.publish does:
\* "ok", "err" (an error code) or "exc" (it raises)
publish ==
    /\ started
    /\ \E topic \in PubTopics, payload \in PubPayloads,
          result \in Answers(client, connected, {"ok", "err", "exc"}) :
        /\ wire' = PublishWire(client, connected, topic, payload, result)
        /\ raised' = PublishRaises(client, connected, result)
        /\ lastOp' = Op("publish", topic, NoCallback, payload, 0)
    /\ called' = <<>>
    /\ replayed' = {}
    /\ UNCHANGED <<client, connected, subscriptions, started, loopRunning,
                   pending, released, closed, restVars>>

\* an async_shutdown that calls disconnect even after the client was released
async_shutdown_again ==
    /\ started
    /\ wire' = <<WireOp("disconnect", NoTopic, NoPayload, "ok")>>
    /\ loopRunning' = FALSE
    /\ client' = "None"
    /\ connected' = FALSE
    /\ called' = <<>>
    /\ lastOp' = Op("async_shutdown", NoTopic, NoCallback, NoPayload, 0)
    /\ raised' = FALSE
    /\ replayed' = {}
    /\ closed' = TRUE
    /\ UNCHANGED <<subscriptions, started, pending, released, restVars>>

\* GalaxyCoordinator.async_shutdown
async_shutdown ==
    /\ started
    /\ wire' = IF client # "None"
               THEN <<WireOp("disconnect", NoTopic, NoPayload, "ok")>> ELSE <<>>
    /\ loopRunning' = IF client # "None" THEN FALSE ELSE loopRunning
    /\ client' = "None"
    /\ connected' = FALSE
    /\ called' = <<>>
    /\ lastOp' = Op("async_shutdown", NoTopic, NoCallback, NoPayload, 0)
    /\ raised' = FALSE
    /\ replayed' = {}
    /\ closed' = TRUE
    /\ UNCHANGED <<subscriptions, started, pending, released, restVars>>

Next ==
    \/ connect_mqtt
    \/ on_connect
    \/ on_disconnect
    \/ on_message
    \/ subscribe
    \/ unsubscribe
    \/ publish
    \/ async_shutdown

Spec == Init /\ [][Next]_vars

----------------------------------------------------------------------------
(* Repeated registrations under one pattern *)

\* the pattern the registrations are made under: a/+
RecordPattern == <<"a", "/", "+">>

\* GalaxyCoordinator.subscribe(topic, callback) for the pattern, a callback
\* being registered any number of times
record_subscribe ==
    /\ started
    /\ TotalRegistrations(subscriptions) < MaxRecords
    /\ \E cb \in Callbacks, result \in Answers(client, connected, {"ok", "err"}) :
          DoSubscribe(RecordPattern, cb, result)
    /\ UNCHANGED restVars

RecordsNext ==
    \/ connect_mqtt
    \/ on_connect
    \/ on_message
    \/ record_subscribe
    \/ unsubscribe

RecordsSpec == Init /\ [][RecordsNext]_vars

----------------------------------------------------------------------------
(* The keypad buttons: button.py *)

\* TOPIC_VKP with the module id filled in
VkpTopic == <<"v", "k", "p">>

\* the keys of KEYPAD_BUTTONS
KeypadKeys == {"1", "2", "3", "A", "4", "5", "6", "B",
               "7", "8", "9", "E", "*", "0", "#", "X"}

\* a button that publishes its key twice
PressCallsTwice(vkp, key) ==
    LET call == [topic |-> vkp \o <<"/", "k", "e", "y">>, payload |-> <<key>>]
    IN <<call, call>>

\* async_press, lines 91-93: the coordinator.publish calls of one press
PressCalls(vkp, key) ==
    <<[topic |-> vkp \o <<"/", "k", "e", "y">>, payload |-> <<key>>]>>

\* what the publish calls of a press put on the wire, each answered by result
RECURSIVE PressWire(_, _, _, _)
PressWire(cl, conn, calls, result) ==
    IF calls = <<>> THEN <<>>
    ELSE PublishWire(cl, conn, Head(calls).topic, Head(calls).payload, result)
            \o PressWire(cl, conn, Tail(calls), result)

\* KeypadButton.async_press, for any of the buttons set up after the first refresh
async_press ==
    /\ started
    /\ \E key \in KeypadKeys,
          result \in Answers(client, connected, {"ok", "err", "exc"}) :
        /\ attempts' = PressCalls(VkpTopic, key)
        /\ wire' = PressWire(client, connected, attempts', result)
        /\ raised' = PublishRaises(client, connected, result)
        /\ lastOp' = Op("async_press", VkpTopic \o <<"/", "k", "e", "y">>,
                        NoCallback, <<key>>, 0)
    /\ called' = <<>>
    /\ replayed' = {}
    /\ UNCHANGED <<client, connected, subscriptions, started, loopRunning,
                   pending, released, closed, notPress>>

PressNext ==
    \/ connect_mqtt
    \/ on_connect
    \/ on_disconnect
    \/ async_shutdown
    \/ async_press

PressSpec == Init /\ [][PressNext]_vars

----------------------------------------------------------------------------
(* The printer log sensor: sensor.py *)

\* self._max_lines
MaxLines == 10

\* the longest state the sensor keeps
StateLimit == 255

\* what is kept of a longer state, in front of the marker
KeptChars == 252

Ellipsis == <<".", ".", ".">>

\* what str.strip() removes at both ends
Whitespace == {" ", NL, "\t", "\r"}

RECURSIVE LStrip(_)
LStrip(s) ==
    IF s # <<>> /\ Head(s) \in Whitespace THEN LStrip(Tail(s)) ELSE s

RECURSIVE RStrip(_)
RStrip(s) ==
    IF s # <<>> /\ s[Len(s)] \in Whitespace
    THEN RStrip(SubSeq(s, 1, Len(s) - 1)) ELSE s

\* str.strip()
Strip(s) == RStrip(LStrip(s))

\* "\n".join(lines)
RECURSIVE Join(_)
Join(lines) ==
    IF lines = <<>> THEN <<>>
    ELSE IF Len(lines) = 1 THEN lines[1]
    ELSE lines[1] \o <<NL>> \o Join(Tail(lines))

\* list[-n:]
LastN(list, n) ==
    IF Len(list) <= n THEN list ELSE SubSeq(list, Len(list) - n + 1, Len(list))

\* s[:252] + "..."
Truncate(s) == SubSeq(s, 1, IF Len(s) < KeptChars THEN Len(s) ELSE KeptChars) \o Ellipsis

\* a buffer that keeps its first lines and drops the new one when full
AppendLineKeepOldest(lines, payload) ==
    LET all == Append(lines, Strip(payload))
    IN SubSeq(all, 1, IF Len(all) < MaxLines THEN Len(all) ELSE MaxLines)

\* _async_update_state, lines 175-177
AppendLine(lines, payload) == LastN(Append(lines, Strip(payload)), MaxLines)

\* a state that is always the joined buffer, truncated when it is too long
RenderJoined(lines) ==
    IF Len(Join(lines)) > StateLimit THEN Truncate(Join(lines)) ELSE Join(lines)

\* _async_update_state, lines 178-191: the state made from the buffer
Render(lines) ==
    LET full_log == Join(lines)
        latest_line == lines[Len(lines)]
        state == IF Len(full_log) > StateLimit
                 THEN IF lines # <<>>
                      THEN IF Len(latest_line) > StateLimit
                           THEN Truncate(latest_line) ELSE latest_line
                      ELSE <<>>
                 ELSE full_log
    IN IF Len(state) > StateLimit THEN Truncate(state) ELSE state

\* PrinterLogSensor.native_value
native_value(state) ==
    IF Len(state) > StateLimit THEN Truncate(state) ELSE state

\* the log lines given to the sensor in PrinterSpec
LogPayloads == {<<"A">>, <<" ", "B", NL>>}

\* the payloads given to the sensor in RenderSpec: short, empty, blank, long
\* enough for two lines to pass the limit, and longer than the limit
RenderPayloads ==
    {<<"A">>, <<>>, <<" ", "B", NL>>, <<" ">>,
     [i \in 1..130 |-> "x"], [i \in 1..256 |-> "y"]}

\* PrinterLogSensor._async_update_state(payload)
UpdatePrinter(payload) ==
    /\ received' = Append(received, payload)
    /\ IF payload # <<>>
       THEN /\ log_lines' = AppendLine(log_lines, payload)
            /\ printer_state' = Render(AppendLine(log_lines, payload))
       ELSE UNCHANGED <<log_lines, printer_state>>
    /\ UNCHANGED <<coordVars, notPrinter>>

\* a log line arrives
push_line ==
    /\ Len(received) < MaxPushes
    /\ \E payload \in LogPayloads : UpdatePrinter(payload)

PrinterNext == push_line

PrinterSpec == Init /\ [][PrinterNext]_vars

\* a payload of any length arrives
push_payload ==
    /\ Len(received) < MaxRenderPushes
    /\ \E payload \in RenderPayloads : UpdatePrinter(payload)

RenderNext == push_payload

RenderSpec == Init /\ [][RenderNext]_vars

----------------------------------------------------------------------------
(* The entities and the hand-off to the event loop: binary_sensor.py, sensor.py *)

\* the topic an entity subscribes to in async_added_to_hass
EntityTopic(e) ==
    IF e = "zone" THEN <<"z", "/", "1">>
    ELSE IF e = "zone2" THEN <<"z", "/", "2">>
    ELSE IF e = "output" THEN <<"o", "/", "1">>
    ELSE IF e = "switch" THEN <<"r", "/", "1">>
    ELSE <<"d">>

\* payloads as the broker sends them on the topic of an entity.
\* zone: OPEN, Open\n, CLOSED, FOO, empty; output: ON, " on", OPEN, empty;
\* display: ON, FOO; the second zone and the switch: OPEN, CLOSED
EntityPayloads(e) ==
    IF e \in {"zone2", "switch"} THEN {<<79, 80, 69, 78>>, <<67, 76, 79, 83, 69, 68>>}
    ELSE IF e = "zone"
    THEN {<<79, 80, 69, 78>>, <<79, 112, 101, 110, 10>>,
          <<67, 76, 79, 83, 69, 68>>, <<70, 79, 79>>, <<>>}
    ELSE IF e = "output"
    THEN {<<79, 78>>, <<32, 111, 110>>, <<79, 80, 69, 78>>, <<>>}
    ELSE {<<79, 78>>, <<70, 79, 79>>}

UpperChar(c) ==
    IF \E i \in 1..Len(Lowercase) : Lowercase[i] = c
    THEN Uppercase[CHOOSE i \in 1..Len(Lowercase) : Lowercase[i] = c]
    ELSE c

\* str.upper()
Upper(s) == [i \in 1..Len(s) |-> UpperChar(s[i])]

\* a handler that compares the payload as it comes
HandOffExact(e, payload) ==
    IF e \in Zones THEN payload = <<"O", "P", "E", "N">>
    ELSE IF e = "output" THEN payload = <<"O", "N">>
    ELSE payload

\* handle_message of the entity: the argument it hands to _async_update_state
HandOff(e, payload) ==
    IF e \in Zones THEN Upper(Strip(payload)) = <<"O", "P", "E", "N">>
    ELSE IF e = "output" THEN Upper(Strip(payload)) = <<"O", "N">>
    ELSE payload

\* what the handlers called for one message give to loop.call_soon_threadsafe
HandOffs(calls, id) ==
    [i \in 1..Len(calls) |->
        [kind |-> "handoff", entity |-> calls[i].cb, topic |-> calls[i].topic,
         value |-> HandOff(calls[i].cb, calls[i].payload), id |-> id]]

\* an event loop that runs what was scheduled last first
TakeNewest(queue) == [item |-> queue[Len(queue)],
                      rest |-> SubSeq(queue, 1, Len(queue) - 1)]

\* the event loop runs what was scheduled first
TakeNext(queue) == [item |-> Head(queue), rest |-> Tail(queue)]

\* async_added_to_hass of one of the entities E, once the first refresh has run
AddedToHass(E) ==
    /\ started
    /\ \E e \in E \ added,
          result \in Answers(client, connected, {"ok", "err"}) :
        /\ DoSubscribe(EntityTopic(e), e, result)
        /\ added' = added \cup {e}
    /\ UNCHANGED <<entity_state, ready, msgs, lastSeen, applied>>
    /\ UNCHANGED notBridge

\* async_added_to_hass of an entity
entity_added == AddedToHass(Entities)

\* on_message for a message on the topic of an entity: the handlers it calls
\* schedule their hand-offs on the event loop
MessageFor(E) ==
    /\ loopRunning
    /\ connected
    /\ msgs < MaxMessages
    /\ \E e \in E : \E raw \in EntityPayloads(e) :
        /\ Dispatch(EntityTopic(e), raw, {})
        /\ ready' = ready \o HandOffs(
                        Invocations(subscriptions, EntityTopic(e), Decode(raw), {}),
                        msgs + 1)
        /\ lastSeen' = IF e \in added
                       THEN [lastSeen EXCEPT ![e] = [id |-> msgs + 1, raw |-> raw]]
                       ELSE lastSeen
    /\ msgs' = msgs + 1
    /\ UNCHANGED <<added, entity_state, applied>>
    /\ UNCHANGED notBridge

\* on_message for a message on the topic of an entity
entity_message == MessageFor(Entities)

\* an event loop on which the scheduled callback is taken and never called
run_handoff_cancelled ==
    /\ ready # <<>>
    /\ TakeNext(ready).item.kind = "handoff"
    /\ ready' = TakeNext(ready).rest
    /\ UNCHANGED <<added, entity_state, msgs, lastSeen, applied>>
    /\ UNCHANGED <<coordVars, notBridge>>

\* the event loop runs a callback given to call_soon_threadsafe: the lambda
\* creates the task of _async_update_state, whose first step is scheduled
run_handoff ==
    /\ ready # <<>>
    /\ TakeNext(ready).item.kind = "handoff"
    /\ ready' = Append(TakeNext(ready).rest,
                       [TakeNext(ready).item EXCEPT !.kind = "task"])
    /\ UNCHANGED <<added, entity_state, msgs, lastSeen, applied>>
    /\ UNCHANGED <<coordVars, notBridge>>

\* the event loop runs the task: _async_update_state sets the state
run_task ==
    /\ ready # <<>>
    /\ TakeNext(ready).item.kind = "task"
    /\ ready' = TakeNext(ready).rest
    /\ entity_state' = [entity_state EXCEPT ![TakeNext(ready).item.entity] =
                            TakeNext(ready).item.value]
    /\ applied' = [applied EXCEPT ![TakeNext(ready).item.entity] =
                            TakeNext(ready).item.id]
    /\ UNCHANGED <<added, msgs, lastSeen>>
    /\ UNCHANGED <<coordVars, notBridge>>

BridgeNext ==
    \/ connect_mqtt
    \/ on_connect
    \/ entity_added
    \/ entity_message
    \/ run_handoff
    \/ run_task

BridgeSpec == Init /\ [][BridgeNext]_vars

\* async_added_to_hass of a numbered zone or output
numbered_added == AddedToHass(NumberedEntities)

\* on_message for a message on the topic of a numbered zone or output
numbered_message == MessageFor(NumberedEntities)

NumberedNext ==
    \/ connect_mqtt
    \/ on_connect
    \/ numbered_added
    \/ numbered_message
    \/ run_handoff
    \/ run_task

NumberedSpec == Init /\ [][NumberedNext]_vars

----------------------------------------------------------------------------
(* The virtual zone switch: switch.py *)

\* the write topic of the virtual zone of number 1
ZoneWriteTopic == <<"w", "/", "1">>

\* _set_zone_state, lines 153-155: the coordinator.publish calls of one command
ZoneCalls(state) ==
    <<[topic |-> ZoneWriteTopic,
       payload |-> IF state THEN <<"O", "P", "E", "N">>
                   ELSE <<"C", "L", "O", "S", "E", "D">>]>>

\* a switch that takes the commanded state only when the publish went out
SetZoneStateWhenSent(is_on, state, sent) == IF sent THEN state ELSE is_on

\* _set_zone_state, line 156: the state the switch has after the command
SetZoneState(is_on, state, sent) == state

\* async_added_to_hass of the switch
switch_added == AddedToHass(SwitchEntities)

\* on_message for a message on the read topic of the switch
switch_message == MessageFor(SwitchEntities)

\* VirtualRIOZone.async_turn_on (state TRUE) and async_turn_off (state FALSE)
switch_turn ==
    /\ "switch" \in added
    /\ \E state \in BOOLEAN,
          result \in Answers(client, connected, {"ok", "err", "exc"}) :
        /\ attempts' = ZoneCalls(state)
        /\ wire' = PressWire(client, connected, attempts', result)
        /\ raised' = PublishRaises(client, connected, result)
        /\ entity_state' = [entity_state EXCEPT !["switch"] =
                                SetZoneState(@, state, wire' # <<>>)]
        /\ lastOp' = Op(IF state THEN "async_turn_on" ELSE "async_turn_off",
                        ZoneWriteTopic, NoCallback, attempts'[1].payload, 0)
    /\ called' = <<>>
    /\ replayed' = {}
    /\ UNCHANGED <<client, connected, subscriptions, started, loopRunning,
                   pending, released, closed>>
    /\ UNCHANGED <<added, ready, msgs, lastSeen, applied>>
    /\ UNCHANGED <<matchVars, printerVars, discVars, raceVars, lifeVars, stepVars>>

SwitchNext ==
    \/ connect_mqtt
    \/ on_connect
    \/ on_disconnect
    \/ switch_added
    \/ switch_message
    \/ switch_turn
    \/ run_handoff
    \/ run_task

SwitchSpec == Init /\ [][SwitchNext]_vars

\* the host removes an entity: Entity.async_remove calls
\* async_will_remove_from_hass and the callbacks given to async_on_remove; the
\* entities define neither, so nothing of the coordinator is called
entity_removed ==
    /\ \E e \in added \ removed : removed' = removed \cup {e}
    /\ UNCHANGED <<coordVars, notLife>>

RemovalNext ==
    \/ connect_mqtt
    \/ on_connect
    \/ entity_added
    \/ entity_removed
    \/ entity_message
    \/ run_handoff
    \/ run_task

RemovalSpec == Init /\ [][RemovalNext]_vars

\* the event loop is never torn down in BridgeNext and runs its ready callbacks
\* one after the other: a callback that is ready is run
BridgeFairSpec == BridgeSpec /\ WF_vars(run_handoff) /\ WF_vars(run_task)

----------------------------------------------------------------------------
(* Discovery: _discover_prio_outputs in binary_sensor.py *)

\* the turns of the wait loop, range(10)
WaitTurns == 10

\* TOPIC_PRIO_OUTPUTS with the module id filled in, and "/+"
DiscoveryTopic == <<"o", "/", "+">>

\* the handler the routine registers
DiscoveryHandler == "discovery_handler"

\* topics of the messages that arrive: outputs 5 and 9, a tail that is no
\* number, an empty tail, another subsystem
DiscoveryTopics ==
    {<<"o", "/", "5">>, <<"o", "/", "9">>, <<"o", "/", "x">>, <<"o", "/">>,
     <<"z", "/", "5">>}

Digits == <<"0", "1", "2", "3", "4", "5", "6", "7", "8", "9">>

\* topic.split("/")[-1]
RECURSIVE LastSegment(_)
LastSegment(topic) ==
    IF topic = <<>> \/ topic[Len(topic)] = "/" THEN <<>>
    ELSE Append(LastSegment(SubSeq(topic, 1, Len(topic) - 1)), topic[Len(topic)])

\* int(s) succeeds on a string of decimal digits
IsNumeral(s) ==
    /\ s # <<>>
    /\ \A i \in 1..Len(s) : \E d \in 1..Len(Digits) : Digits[d] = s[i]

\* int(s) of a string of decimal digits
RECURSIVE IntOf(_)
IntOf(s) ==
    IF s = <<>> THEN 0
    ELSE 10 * IntOf(SubSeq(s, 1, Len(s) - 1))
            + (CHOOSE d \in 1..Len(Digits) : Digits[d] = s[Len(s)]) - 1

\* a handler that records 0 for a tail that is no number
HandleDiscoveryLenient(found, topic) ==
    IF IsNumeral(LastSegment(topic))
    THEN found \cup {IntOf(LastSegment(topic))}
    ELSE found \cup {0}

\* discovery_handler(topic, payload), lines 71-79: the set after the call; the
\* ValueError of int() is caught
HandleDiscovery(found, topic) ==
    IF IsNumeral(LastSegment(topic))
    THEN found \cup {IntOf(LastSegment(topic))}
    ELSE found

\* lines 81-92 up to the first await: with a session the routine subscribes and
\* sleeps through the window, without one it enters the wait loop
discover_begin ==
    /\ started
    /\ disc_pc = "idle"
    /\ IF connected
       THEN /\ \E res \in Answers(client, connected, {"ok", "err"}) :
                    DoSubscribe(DiscoveryTopic, DiscoveryHandler, res)
            /\ disc_pc' = "window"
       ELSE /\ disc_pc' = "poll"
            /\ UNCHANGED coordVars
    /\ UNCHANGED <<polls, discovered, returned, windowTopics, windowRepeats>>
    /\ UNCHANGED notDisc

\* lines 83-92: one turn of the wait loop after its sleep(1); with a session
\* the routine subscribes, after the tenth turn without one it returns the
\* empty set
discover_poll ==
    /\ disc_pc = "poll"
    /\ polls' = polls + 1
    /\ IF connected
       THEN /\ \E res \in Answers(client, connected, {"ok", "err"}) :
                    DoSubscribe(DiscoveryTopic, DiscoveryHandler, res)
            /\ disc_pc' = "window"
            /\ UNCHANGED returned
       ELSE /\ disc_pc' = IF polls + 1 = WaitTurns THEN "done" ELSE "poll"
            /\ returned' = IF polls + 1 = WaitTurns THEN discovered ELSE returned
            /\ UNCHANGED coordVars
    /\ UNCHANGED <<discovered, windowTopics, windowRepeats>>
    /\ UNCHANGED notDisc

\* a routine that returns the set and leaves its handler registered
discover_finish_keeps ==
    /\ disc_pc = "window"
    /\ disc_pc' = "done"
    /\ returned' = discovered
    /\ UNCHANGED coordVars
    /\ UNCHANGED <<polls, discovered, windowTopics, windowRepeats>>
    /\ UNCHANGED notDisc

\* lines 95-100, after sleep(10): the routine unsubscribes and returns the set
discover_finish ==
    /\ disc_pc = "window"
    /\ DoUnsubscribe(DiscoveryTopic, DiscoveryHandler)
    /\ disc_pc' = "done"
    /\ returned' = discovered
    /\ UNCHANGED <<polls, discovered, windowTopics, windowRepeats>>
    /\ UNCHANGED notDisc

\* what the handlers called for one message leave in the set
RECURSIVE Collected(_, _)
Collected(found, calls) ==
    IF calls = <<>> THEN found
    ELSE Collected(IF Head(calls).cb = DiscoveryHandler
                   THEN HandleDiscovery(found, Head(calls).topic)
                   ELSE found,
                   Tail(calls))

\* on_message for a message on one of the topics; the discovery handler is
\* called on the paho thread and writes the set
discovery_message ==
    /\ loopRunning
    /\ connected
    /\ \E topic \in DiscoveryTopics :
        /\ Dispatch(topic, <<79, 78>>, {})
        /\ discovered' = Collected(discovered,
                            Invocations(subscriptions, topic, Decode(<<79, 78>>), {}))
        /\ windowTopics' = IF disc_pc = "window" THEN windowTopics \cup {topic}
                           ELSE windowTopics
        /\ windowRepeats' = IF disc_pc = "window" /\ topic \in windowTopics
                            THEN windowRepeats \cup {topic} ELSE windowRepeats
    /\ UNCHANGED <<disc_pc, polls, returned>>
    /\ UNCHANGED notDisc

DiscoveryNext ==
    \/ connect_mqtt
    \/ on_connect
    \/ on_disconnect
    \/ discover_begin
    \/ discover_poll
    \/ discover_finish
    \/ discovery_message

DiscoverySpec == Init /\ [][DiscoveryNext]_vars

\* the sleeps of the routine end: asyncio.sleep(1) in the wait loop and
\* asyncio.sleep(10) of the window return on the running event loop
DiscoveryFairSpec ==
    DiscoverySpec /\ WF_vars(discover_poll) /\ WF_vars(discover_finish)

----------------------------------------------------------------------------
(* on_message step by step on the paho thread, subscribe and unsubscribe
   in between on the event loop: coordinator.py has no lock *)

\* subscribe or unsubscribe changed the keys under a running scan
KeysChanged(before, after) ==
    d_dirty \/ (d_pc = "scan" /\ d_pos > 0 /\ Keys(before) # Keys(after))

\* GalaxyCoordinator.subscribe on the event loop
race_subscribe ==
    /\ started
    /\ TotalRegistrations(subscriptions) < MaxRegistrations
    /\ \E topic \in Patterns, cb \in Callbacks,
          res \in Answers(client, connected, {"ok", "err"}) :
        /\ DoSubscribe(topic, cb, res)
        /\ d_dirty' = KeysChanged(subscriptions, Register(subscriptions, topic, cb))
    /\ UNCHANGED <<d_pc, d_topic, d_pos, d_size, d_error>>
    /\ UNCHANGED notRace

\* GalaxyCoordinator.unsubscribe on the event loop
race_unsubscribe ==
    /\ started
    /\ \E topic \in Patterns, cb \in Callbacks :
        /\ DoUnsubscribe(topic, cb)
        /\ d_dirty' = KeysChanged(subscriptions, Unregister(subscriptions, topic, cb))
    /\ UNCHANGED <<d_pc, d_topic, d_pos, d_size, d_error>>
    /\ UNCHANGED notRace

\* the invocations of one callback list, none of which raises
Calls(cbs, topic, payload) ==
    [i \in 1..Len(cbs) |->
        [cb |-> cbs[i], topic |-> topic, payload |-> payload, raises |-> FALSE]]

\* what a step of on_message leaves of the last operation
DispatchStep(topic, calls) ==
    /\ called' = calls
    /\ lastOp' = Op("on_message", topic, NoCallback, <<79, 78>>, 0)
    /\ wire' = <<>>
    /\ raised' = FALSE
    /\ replayed' = {}
    /\ UNCHANGED <<client, connected, subscriptions, started, loopRunning,
                   pending, released, closed>>

\* lines 110-118: a message arrives, and on_message tests `topic in
\* self.subscriptions`
dispatch_begin ==
    /\ loopRunning
    /\ connected
    /\ d_pc = "idle"
    /\ \E topic \in Topics :
        /\ d_topic' = topic
        /\ d_pc' = IF HasKey(subscriptions, topic) THEN "exact" ELSE "scan"
        /\ DispatchStep(topic, <<>>)
    /\ d_pos' = 0
    /\ d_size' = 0
    /\ d_dirty' = FALSE
    /\ d_error' = "none"
    /\ UNCHANGED notRace

\* lines 120-126, after the logging call of line 119: self.subscriptions[topic]
\* is fetched and its callbacks are called; a key that is gone is a KeyError
dispatch_exact ==
    /\ d_pc = "exact"
    /\ IF HasKey(subscriptions, d_topic)
       THEN /\ DispatchStep(d_topic,
                  Calls(subscriptions[IndexOf(subscriptions, d_topic)].callbacks,
                        d_topic, Decode(<<79, 78>>)))
            /\ d_pc' = "idle"
            /\ d_error' = "none"
       ELSE /\ DispatchStep(d_topic, <<>>)
            /\ d_pc' = "raised"
            /\ d_error' = "KeyError"
    /\ UNCHANGED <<d_topic, d_pos, d_size, d_dirty>>
    /\ UNCHANGED notRace

\* lines 130-140: one turn of `for sub_topic, callbacks in
\* self.subscriptions.items()`, up to the call of _topic_matches and, on a
\* match, the calls and the break. The first turn creates the iterator; a
\* later turn finds a dict of another size (RuntimeError), or, when keys were
\* deleted and added to the same size, either fails or goes on from its
\* position
scan_next ==
    /\ d_pc = "scan"
    /\ \E outcome \in IF d_pos > 0 /\ Len(subscriptions) # d_size THEN {"error"}
                       ELSE IF d_pos > 0 /\ d_dirty THEN {"error", "next"}
                       ELSE {"next"} :
        IF outcome = "error"
        THEN /\ DispatchStep(d_topic, <<>>)
             /\ d_pc' = "raised"
             /\ d_error' = "RuntimeError"
             /\ UNCHANGED <<d_pos, d_size>>
        ELSE IF d_pos >= Len(subscriptions)
        THEN /\ DispatchStep(d_topic, <<>>)
             /\ d_pc' = "idle"
             /\ d_error' = "none"
             /\ UNCHANGED <<d_pos, d_size>>
        ELSE /\ d_pos' = d_pos + 1
             /\ d_size' = IF d_pos = 0 THEN Len(subscriptions) ELSE d_size
             /\ d_error' = "none"
             /\ IF topic_matches(d_topic, subscriptions[d_pos + 1].pattern)
                THEN /\ DispatchStep(d_topic,
                            Calls(subscriptions[d_pos + 1].callbacks, d_topic,
                                  Decode(<<79, 78>>)))
                     /\ d_pc' = "idle"
                ELSE /\ DispatchStep(d_topic, <<>>)
                     /\ d_pc' = "scan"
    /\ UNCHANGED <<d_topic, d_dirty>>
    /\ UNCHANGED notRace

RaceNext ==
    \/ connect_mqtt
    \/ on_connect
    \/ race_subscribe
    \/ race_unsubscribe
    \/ dispatch_begin
    \/ dispatch_exact
    \/ scan_next

RaceSpec == Init /\ [][RaceNext]_vars

----------------------------------------------------------------------------
(* on_connect, subscribe, unsubscribe and the callback loop of on_message in
   the steps between which the interpreter can switch between the paho thread
   and the event loop *)

\* a replay that takes the first key of the registry only
ReplayKeysFirst(subs) == IF subs = <<>> THEN <<>> ELSE <<subs[1].pattern>>

\* on_connect, lines 84-85: list(self.subscriptions.keys())
ReplayKeys(subs) == Keys(subs)

\* unsubscribe, lines 194-195: list.remove on the list of the key
RemoveCallback(subs, topic, cb) ==
    [subs EXCEPT ![IndexOf(subs, topic)].callbacks =
        IF InList(@, cb) THEN ListRemove(@, cb) ELSE @]

\* what a step of an operation leaves of the last operation
StepOp(name, rc, calls) ==
    /\ lastOp' = Op(name, NoTopic, NoCallback, NoPayload, rc)
    /\ wire' = calls
    /\ called' = <<>>
    /\ raised' = FALSE

\* the arguments of the call are dropped when it returns
ReturnOrGoOn ==
    /\ e_topic' = IF e_pc' = "idle" THEN <<>> ELSE e_topic
    /\ e_cb' = IF e_pc' = "idle" THEN "none" ELSE e_cb

\* subscribe, lines 172-174: the callback is registered; the call is one of
\* subscribe(topic, cb) for topic in P and cb in C
SubRegister(P, C) ==
    /\ started
    /\ e_pc = "idle"
    /\ TotalRegistrations(subscriptions) < MaxRegistrations
    /\ \E topic \in P, cb \in C :
        /\ subscriptions' = Register(subscriptions, topic, cb)
        /\ e_topic' = topic
        /\ e_cb' = cb
        /\ released' = released \ {topic}
        /\ StepOp("subscribe", 0, <<>>)
    /\ e_pc' = "sub_registered"
    /\ replayed' = {}
    /\ UNCHANGED <<client, connected, started, loopRunning, pending, closed>>
    /\ UNCHANGED <<c_pc, c_keys, c_pos, tried, lastWire,
                   it_pc, it_topic, it_key, it_pos, it_attached, it_stayed, it_invoked>>
    /\ UNCHANGED notStep

\* the subscribe calls made while on_connect runs: patterns a/b and a/+
sub_register == SubRegister({<<"a", "/", "b">>, <<"a", "/", "+">>}, {"cb1"})

\* the subscribe calls made while the callback loop runs: pattern a/+
iter_subscribe == SubRegister({<<"a", "/", "+">>}, {"cb1", "cb2"})

\* subscribe, lines 179-180: self.client and self.connected are read
sub_test ==
    /\ e_pc = "sub_registered"
    /\ e_pc' = IF client # "None" /\ connected THEN "sub_send" ELSE "idle"
    /\ pending' = IF client # "None" /\ connected THEN pending
                  ELSE pending \cup {e_topic}
    /\ StepOp("subscribe", 0, <<>>)
    /\ replayed' = {}
    /\ UNCHANGED <<client, connected, subscriptions, started, loopRunning,
                   released, closed>>
    /\ ReturnOrGoOn
    /\ UNCHANGED <<c_pc, c_keys, c_pos, tried, lastWire,
                   it_pc, it_topic, it_key, it_pos, it_attached, it_stayed, it_invoked>>
    /\ UNCHANGED notStep

\* subscribe, line 181: client.subscribe(topic, qos=0)
sub_send ==
    /\ e_pc = "sub_send"
    /\ \E result \in {"ok", "err"} :
        StepOp("subscribe", 0,
               <<WireOp("subscribe", e_topic, NoPayload, result)>>)
    /\ tried' = [tried EXCEPT ![e_topic] = @ \cup {"subscribe"}]
    /\ lastWire' = [lastWire EXCEPT ![e_topic] = "subscribe"]
    /\ pending' = pending \ {e_topic}
    /\ e_pc' = "idle"
    /\ replayed' = {}
    /\ UNCHANGED <<client, connected, subscriptions, started, loopRunning,
                   released, closed>>
    /\ ReturnOrGoOn
    /\ UNCHANGED <<c_pc, c_keys, c_pos,
                   it_pc, it_topic, it_key, it_pos, it_attached, it_stayed, it_invoked>>
    /\ UNCHANGED notStep

\* unsubscribe, lines 193-195: the callback is removed from the list of the
\* key; nothing else is done for a topic that is no key. The call is one of
\* unsubscribe(topic, cb) for topic in P and cb in C
UnsubRemove(P, C) ==
    /\ started
    /\ e_pc = "idle"
    /\ \E topic \in P, cb \in C :
        /\ StepOp("unsubscribe", 0, <<>>)
        /\ IF HasKey(subscriptions, topic)
           THEN /\ subscriptions' = RemoveCallback(subscriptions, topic, cb)
                /\ e_pc' = "unsub_removed"
                /\ e_topic' = topic
                /\ e_cb' = cb
                /\ it_stayed' = IF it_pc = "iter" /\ it_attached /\ it_key = topic
                                THEN it_stayed \ {cb} ELSE it_stayed
           ELSE UNCHANGED <<subscriptions, e_pc, e_topic, e_cb, it_stayed>>
    /\ replayed' = {}
    /\ UNCHANGED <<client, connected, started, loopRunning, pending, released,
                   closed>>
    /\ UNCHANGED <<c_pc, c_keys, c_pos, tried, lastWire,
                   it_pc, it_topic, it_key, it_pos, it_attached, it_invoked>>
    /\ UNCHANGED notStep

\* the unsubscribe calls made while on_connect runs
unsub_remove == UnsubRemove({<<"a", "/", "b">>, <<"a", "/", "+">>}, {"cb1"})

\* the unsubscribe calls made while the callback loop runs
iter_unsubscribe == UnsubRemove({<<"a", "/", "+">>}, {"cb1", "cb2"})

\* unsubscribe, lines 196-197: the key of an empty list is deleted
unsub_del ==
    /\ e_pc = "unsub_removed"
    /\ StepOp("unsubscribe", 0, <<>>)
    /\ IF subscriptions[IndexOf(subscriptions, e_topic)].callbacks = <<>>
       THEN /\ subscriptions' = DelKey(subscriptions, e_topic)
            /\ e_pc' = "unsub_deleted"
            /\ pending' = pending \ {e_topic}
            /\ released' = released \cup {e_topic}
            /\ it_attached' = IF it_pc = "iter" /\ it_key = e_topic
                              THEN FALSE ELSE it_attached
       ELSE /\ e_pc' = "idle"
            /\ UNCHANGED <<subscriptions, pending, released, it_attached>>
    /\ replayed' = {}
    /\ UNCHANGED <<client, connected, started, loopRunning, closed>>
    /\ ReturnOrGoOn
    /\ UNCHANGED <<c_pc, c_keys, c_pos, tried, lastWire,
                   it_pc, it_topic, it_key, it_pos, it_stayed, it_invoked>>
    /\ UNCHANGED notStep

\* unsubscribe, line 198: self.client and self.connected are read
unsub_test ==
    /\ e_pc = "unsub_deleted"
    /\ e_pc' = IF client # "None" /\ connected THEN "unsub_send" ELSE "idle"
    /\ StepOp("unsubscribe", 0, <<>>)
    /\ replayed' = {}
    /\ UNCHANGED <<client, connected, subscriptions, started, loopRunning,
                   pending, released, closed>>
    /\ ReturnOrGoOn
    /\ UNCHANGED <<c_pc, c_keys, c_pos, tried, lastWire,
                   it_pc, it_topic, it_key, it_pos, it_attached, it_stayed, it_invoked>>
    /\ UNCHANGED notStep

\* unsubscribe, line 199: client.unsubscribe(topic)
unsub_send ==
    /\ e_pc = "unsub_send"
    /\ StepOp("unsubscribe", 0,
              <<WireOp("unsubscribe", e_topic, NoPayload, "ok")>>)
    /\ lastWire' = [lastWire EXCEPT ![e_topic] = "unsubscribe"]
    /\ e_pc' = "idle"
    /\ replayed' = {}
    /\ UNCHANGED <<client, connected, subscriptions, started, loopRunning,
                   pending, released, closed>>
    /\ ReturnOrGoOn
    /\ UNCHANGED <<c_pc, c_keys, c_pos, tried,
                   it_pc, it_topic, it_key, it_pos, it_attached, it_stayed, it_invoked>>
    /\ UNCHANGED notStep

\* on_connect, lines 79-80 and 95-101: the loop calls on_connect for a new
\* session, and self.connected is set
connect_flag ==
    /\ loopRunning
    /\ ~connected
    /\ c_pc = "idle"
    /\ it_pc # "iter"
    /\ \E rc \in ConnectCodes :
        /\ connected' = (rc = 0)
        /\ c_pc' = IF rc = 0 THEN "flagged" ELSE "idle"
        /\ tried' = IF rc = 0 THEN [p \in Patterns |-> {}] ELSE tried
        /\ lastWire' = IF rc = 0 THEN [p \in Patterns |-> "none"] ELSE lastWire
        /\ StepOp("on_connect", rc, <<>>)
    /\ replayed' = {}
    /\ UNCHANGED <<client, subscriptions, started, loopRunning, pending, released,
                   closed>>
    /\ UNCHANGED <<c_keys, c_pos, e_pc, e_topic, e_cb,
                   it_pc, it_topic, it_key, it_pos, it_attached, it_stayed, it_invoked>>
    /\ UNCHANGED notStep

\* on_connect, lines 84-85: the keys are copied, if there are any
connect_copy ==
    /\ c_pc = "flagged"
    /\ c_keys' = ReplayKeys(subscriptions)
    /\ c_pos' = 0
    /\ c_pc' = IF ReplayKeys(subscriptions) = <<>> THEN "idle" ELSE "replay"
    /\ StepOp("on_connect", 0, <<>>)
    /\ replayed' = {}
    /\ UNCHANGED <<client, connected, subscriptions, started, loopRunning,
                   pending, released, closed>>
    /\ UNCHANGED <<e_pc, e_topic, e_cb, tried, lastWire,
                   it_pc, it_topic, it_key, it_pos, it_attached, it_stayed, it_invoked>>
    /\ UNCHANGED notStep

\* on_connect, lines 87-92: one turn of the replay loop, client.subscribe of
\* the next copied key
connect_replay ==
    /\ c_pc = "replay"
    /\ \E result \in {"ok", "err"} :
        StepOp("on_connect", 0,
               <<WireOp("subscribe", c_keys[c_pos + 1], NoPayload, result)>>)
    /\ tried' = [tried EXCEPT ![c_keys[c_pos + 1]] = @ \cup {"replay"}]
    /\ lastWire' = [lastWire EXCEPT ![c_keys[c_pos + 1]] = "subscribe"]
    /\ replayed' = pending \cap {c_keys[c_pos + 1]}
    /\ pending' = pending \ {c_keys[c_pos + 1]}
    /\ IF c_pos + 1 = Len(c_keys)
       THEN /\ c_pc' = "idle"
            /\ c_keys' = <<>>
            /\ c_pos' = 0
       ELSE /\ c_pos' = c_pos + 1
            /\ UNCHANGED <<c_pc, c_keys>>
    /\ UNCHANGED <<client, connected, subscriptions, started, loopRunning,
                   released, closed>>
    /\ UNCHANGED <<e_pc, e_topic, e_cb,
                   it_pc, it_topic, it_key, it_pos, it_attached, it_stayed, it_invoked>>
    /\ UNCHANGED notStep

\* on_disconnect, called by the loop between two of its other callbacks
step_disconnect ==
    /\ c_pc = "idle"
    /\ it_pc # "iter"
    /\ on_disconnect

ConnectRaceNext ==
    \/ connect_mqtt
    \/ connect_flag
    \/ connect_copy
    \/ connect_replay
    \/ step_disconnect
    \/ sub_register
    \/ sub_test
    \/ sub_send
    \/ unsub_remove
    \/ unsub_del
    \/ unsub_test
    \/ unsub_send

ConnectRaceSpec == Init /\ [][ConnectRaceNext]_vars

\* the entry on_message takes the callbacks of for a topic, lines 118-134;
\* 0 if there is none
ResolvedEntry(subs, topic) ==
    IF HasKey(subs, topic) THEN IndexOf(subs, topic) ELSE FirstMatch(subs, topic)

\* the list the iterator of the callback loop looks at: the list of the key,
\* or, once the key was deleted, the empty list it was deleted with
IteratedList ==
    IF it_attached THEN subscriptions[IndexOf(subscriptions, it_key)].callbacks
    ELSE <<>>

\* on_message, lines 110-121 and 130-134: a message arrives, the entry it
\* resolves to is found and the loop over its callbacks begins
iter_begin ==
    /\ loopRunning
    /\ connected
    /\ c_pc = "idle"
    /\ it_pc # "iter"
    /\ \E topic \in Topics :
        /\ ResolvedEntry(subscriptions, topic) # 0
        /\ it_topic' = topic
        /\ it_key' = subscriptions[ResolvedEntry(subscriptions, topic)].pattern
        /\ it_stayed' =
              Range(subscriptions[ResolvedEntry(subscriptions, topic)].callbacks)
        /\ DispatchStep(topic, <<>>)
    /\ it_pc' = "iter"
    /\ it_pos' = 0
    /\ it_attached' = TRUE
    /\ it_invoked' = {}
    /\ UNCHANGED <<c_pc, c_keys, c_pos, e_pc, e_topic, e_cb, tried, lastWire>>
    /\ UNCHANGED notStep

\* on_message, lines 121-126 and 134-140: one turn of `for callback in`: the
\* list iterator gives the callback at its index, or ends the loop when the
\* index has reached the length the list has now
iter_next ==
    /\ it_pc = "iter"
    /\ IF it_pos < Len(IteratedList)
       THEN /\ DispatchStep(it_topic,
                    Calls(<<IteratedList[it_pos + 1]>>, it_topic, Decode(<<79, 78>>)))
            /\ it_invoked' = it_invoked \cup {IteratedList[it_pos + 1]}
            /\ it_pos' = it_pos + 1
            /\ UNCHANGED it_pc
       ELSE /\ DispatchStep(it_topic, <<>>)
            /\ it_pc' = "done"
            /\ UNCHANGED <<it_pos, it_invoked>>
    /\ UNCHANGED <<c_pc, c_keys, c_pos, e_pc, e_topic, e_cb, tried, lastWire,
                   it_topic, it_key, it_attached, it_stayed>>
    /\ UNCHANGED notStep

IterNext ==
    \/ connect_mqtt
    \/ connect_flag
    \/ connect_copy
    \/ connect_replay
    \/ iter_subscribe
    \/ sub_test
    \/ sub_send
    \/ iter_unsubscribe
    \/ unsub_del
    \/ unsub_test
    \/ unsub_send
    \/ iter_begin
    \/ iter_next

IterSpec == Init /\ [][IterNext]_vars

----------------------------------------------------------------------------
(* _topic_matches on its own *)

MatchInit ==
    /\ CoordInit
    /\ mtopic \in SeqsUpTo(TopicChars, MaxLen)
    /\ mpattern \in SeqsUpTo(PatternChars, MaxLen)
    /\ mdone = FALSE
    /\ mresult = FALSE
    /\ HostIdle

CallMatch ==
    /\ ~mdone
    /\ mdone' = TRUE
    /\ mresult' = topic_matches(mtopic, mpattern)
    /\ UNCHANGED <<mtopic, mpattern, coordVars, notMatch>>

MatchNext == CallMatch

MatchSpec == MatchInit /\ [][MatchNext]_vars

----------------------------------------------------------------------------
(* Claims about _topic_matches, checked under MatchSpec *)

HasChar(s, c) == \E i \in 1..Len(s) : s[i] = c

NoWildcard(s) == ~HasChar(s, "+") /\ ~HasChar(s, "#")

\* the /-separated segments of a topic or pattern
RECURSIVE Split(_)
Split(s) ==
    IF \A i \in 1..Len(s) : s[i] # "/" THEN <<s>>
    ELSE LET k == CHOOSE i \in 1..Len(s) :
                      s[i] = "/" /\ \A j \in 1..(i-1) : s[j] # "/"
         IN <<SubSeq(s, 1, k-1)>> \o Split(SubSeq(s, k+1, Len(s)))

\* every wildcard of the pattern is a + that is a whole segment
PlusSegmentsOnly(pattern) ==
    \A i \in 1..Len(Split(pattern)) :
        Split(pattern)[i] = <<"+">> \/ NoWildcard(Split(pattern)[i])

\* same number of segments, and equal segments wherever the pattern has no +
SegmentwiseEqual(topic, pattern) ==
    /\ Len(Split(topic)) = Len(Split(pattern))
    /\ \A i \in 1..Len(Split(pattern)) :
          Split(pattern)[i] = <<"+">> \/ Split(pattern)[i] = Split(topic)[i]

\* the pattern is prefix/# with a wildcard-free prefix
IsPrefixHash(pattern) ==
    /\ Len(pattern) >= 3
    /\ pattern[Len(pattern)] = "#"
    /\ pattern[Len(pattern) - 1] = "/"
    /\ NoWildcard(SubSeq(pattern, 1, Len(pattern) - 2))

HashPrefix(pattern) == SubSeq(pattern, 1, Len(pattern) - 2)

\* the topic's leading segments are those of the prefix
LeadsWith(topic, prefix) ==
    /\ Len(Split(topic)) >= Len(Split(prefix))
    /\ \A i \in 1..Len(Split(prefix)) : Split(topic)[i] = Split(prefix)[i]

\* C5: for a pattern without + or #, _topic_matches(T, P) is true exactly when
\* T and P are the same string.
C5_ExactIffEqual ==
    (mdone /\ NoWildcard(mpattern)) => (mresult <=> (mtopic = mpattern))

\* C6: for a pattern whose only wildcards are + segments, _topic_matches(T, P) is
\* true exactly when T has as many segments as P and equals P at every
\* non-+ position, whatever the segments at the + positions hold.
C6_PlusIffSegmentwise ==
    (mdone /\ PlusSegmentsOnly(mpattern))
        => (mresult <=> SegmentwiseEqual(mtopic, mpattern))

\* C7: for a pattern prefix/#, _topic_matches is true for the topic prefix itself
\* and for every topic that extends prefix by one or more segments, and false
\* for every topic whose leading segments differ from prefix.
C7_HashMatchesPrefixAndBelow ==
    (mdone /\ IsPrefixHash(mpattern))
        => (mresult <=> LeadsWith(mtopic, HashPrefix(mpattern)))

----------------------------------------------------------------------------
(* Claims about the coordinator, checked under Spec *)

CallbacksOf(calls) == [i \in 1..Len(calls) |-> calls[i].cb]

CalledCallbacks == CallbacksOf(called)

\* the entries other than the topic's own whose pattern matches the topic
WildcardMatches(subs, topic) ==
    {i \in 1..Len(subs) : subs[i].pattern # topic /\ topic_matches(topic, subs[i].pattern)}

\* C1: when the registry holds an entry whose pattern equals the topic of an
\* inbound message, and wildcard patterns that match it too, dispatch invokes
\* the callbacks of the exact entry, in order, and nothing else.
C1_ExactMatchPrecedence ==
    (lastOp.op = "on_message" /\ HasKey(subscriptions, lastOp.topic))
        => /\ CalledCallbacks = subscriptions[IndexOf(subscriptions, lastOp.topic)].callbacks
           /\ \A i \in 1..Len(called) : called[i].topic = lastOp.topic

\* a message was dispatched on a topic that has an exact entry and, before it in
\* the registry, a matching wildcard entry that holds other callbacks
C1_Witness ==
    /\ lastOp.op = "on_message"
    /\ HasKey(subscriptions, lastOp.topic)
    /\ \E i \in WildcardMatches(subscriptions, lastOp.topic) :
          /\ i < IndexOf(subscriptions, lastOp.topic)
          /\ subscriptions[i].callbacks # CalledCallbacks
    /\ called # <<>>

\* C2: when the topic of an inbound message has no exact entry, the callbacks of
\* at most one pattern are invoked: those of the first pattern, in insertion
\* order, that matches the topic; later matching patterns are skipped.
C2_FirstWildcardWins ==
    (lastOp.op = "on_message" /\ ~HasKey(subscriptions, lastOp.topic))
        => \/ /\ WildcardMatches(subscriptions, lastOp.topic) = {}
              /\ called = <<>>
           \/ \E i \in WildcardMatches(subscriptions, lastOp.topic) :
                 /\ \A j \in WildcardMatches(subscriptions, lastOp.topic) : i <= j
                 /\ CalledCallbacks = subscriptions[i].callbacks

\* a message was dispatched on a topic without an exact entry that two wildcard
\* entries with different callbacks match
C2_Witness ==
    /\ lastOp.op = "on_message"
    /\ ~HasKey(subscriptions, lastOp.topic)
    /\ \E i, j \in WildcardMatches(subscriptions, lastOp.topic) :
          i < j /\ subscriptions[i].callbacks # subscriptions[j].callbacks
    /\ called # <<>>

\* C3: each time connected goes from false to true, the operation issues exactly
\* one client.subscribe per pattern of the registry, in registry order, and
\* nothing for any other pattern.
C3_ReconnectReplay ==
    [][(~connected /\ connected')
          => /\ lastOp'.op = "on_connect" /\ lastOp'.rc = 0
             /\ Len(wire') = Len(subscriptions)
             /\ \A i \in 1..Len(subscriptions) :
                   /\ wire'[i].op = "subscribe"
                   /\ wire'[i].topic = subscriptions[i].pattern
                   /\ wire'[i].qos = 0]_vars

\* a connect replayed a registry of two patterns
C3_Witness ==
    /\ lastOp.op = "on_connect" /\ lastOp.rc = 0
    /\ connected
    /\ Len(subscriptions) >= 2
    /\ Len(wire) = Len(subscriptions)

\* the step is unsubscribe(P, cb) and cb is the only callback P holds
RemovesLast ==
    /\ lastOp'.op = "unsubscribe"
    /\ HasKey(subscriptions, lastOp'.topic)
    /\ subscriptions[IndexOf(subscriptions, lastOp'.topic)].callbacks = <<lastOp'.cb>>

\* the step removes the last callback of P: P leaves the registry and a
\* client.unsubscribe(P) is issued iff the coordinator is connected
RemovalEffect ==
    RemovesLast
        => /\ ~HasKey(subscriptions', lastOp'.topic)
           /\ wire' = IF connected
                      THEN <<WireOp("unsubscribe", lastOp'.topic, NoPayload, "ok")>>
                      ELSE <<>>

\* operation o dispatched a message that matches a pattern of rel
OnReleased(o, rel) ==
    /\ o.op = "on_message"
    /\ \E p \in rel : topic_matches(o.topic, p)

\* the last operation dispatched a message that matches a released pattern
MessageOnReleased == OnReleased(lastOp, released)

\* C4 as stated: after unsubscribe removes the last callback of P, P is no key of
\* the registry, client.unsubscribe(P) is issued iff connected, and a later
\* message matching P triggers no callback.
C4_AsStated ==
    [][RemovalEffect /\ (OnReleased(lastOp', released') => called' = <<>>)]_vars

\* C4 amended: as stated, except that a later message matching P triggers only
\* the callbacks of the one pattern still registered that its topic resolves
\* to, and no callback when no registered pattern equals or matches the topic.
C4_UnregisterToEmpty ==
    [][/\ RemovalEffect
       /\ \A p \in released : ~HasKey(subscriptions, p)
       /\ OnReleased(lastOp', released')
            => \/ /\ \A i \in 1..Len(subscriptions) :
                        ~topic_matches(lastOp'.topic, subscriptions[i].pattern)
                  /\ called' = <<>>
               \/ \E i \in 1..Len(subscriptions) :
                     /\ topic_matches(lastOp'.topic, subscriptions[i].pattern)
                     /\ subscriptions[i].pattern \notin released
                     /\ CallbacksOf(called') = subscriptions[i].callbacks]_vars

\* a message matching a released pattern was dispatched to nobody
C4_Witness ==
    /\ MessageOnReleased
    /\ connected
    /\ called = <<>>
    /\ subscriptions # <<>>

C9_RegistryRetained ==
    [][/\ lastOp'.op = "on_disconnect" => ~connected'
       /\ lastOp'.op \in {"on_disconnect", "on_connect", "on_message", "publish",
                          "async_shutdown", "connect_mqtt"}
            => subscriptions' = subscriptions]_vars

\* a disconnect left a registry of two patterns in place
C9_Witness ==
    /\ lastOp.op = "on_disconnect"
    /\ ~connected
    /\ Len(subscriptions) >= 2

\* C10: publish without a client or while not connected puts nothing on the wire
\* and returns normally; no operation other than a publish made while connected
\* ever puts a publish on the wire; a publish made while connected issues
\* exactly one client.publish, with QoS 0 and retain off.
C10_PublishDropped ==
    [][/\ lastOp'.op = "publish"
            => /\ ~raised'
               /\ IF client # "None" /\ connected
                  THEN /\ Len(wire') = 1
                       /\ wire'[1].op = "publish"
                       /\ wire'[1].topic = lastOp'.topic
                       /\ wire'[1].payload = lastOp'.payload
                       /\ wire'[1].qos = 0
                       /\ wire'[1].retain = FALSE
                  ELSE wire' = <<>>
       /\ lastOp'.op # "publish"
            => \A i \in 1..Len(wire') : wire'[i].op # "publish"]_vars

\* a publish made with a client but while disconnected was dropped
C10_Witness ==
    /\ lastOp.op = "publish"
    /\ client # "None"
    /\ ~connected
    /\ wire = <<>>
    /\ ~raised

----------------------------------------------------------------------------
(* Claims about failures, shutdown and the registry, checked under Spec *)

\* C11: when a callback of the resolved list raises during the dispatch of a
\* message, every callback of that list is still invoked, in order and with
\* that message; on_message itself does not raise and leaves the registry, the
\* connected flag and the rest of the coordinator as they were, so a later
\* message is dispatched from the same state as without the failure.
C11_FailureIsolation ==
    [][lastOp'.op = "on_message"
         => /\ CallbacksOf(called') = Resolve(subscriptions, lastOp'.topic)
            /\ \A i \in 1..Len(called') :
                  /\ called'[i].topic = lastOp'.topic
                  /\ called'[i].payload = Decode(lastOp'.payload)
            /\ ~raised'
            /\ subscriptions' = subscriptions
            /\ connected' = connected
            /\ client' = client
            /\ loopRunning' = loopRunning]_vars

\* the first callback of a dispatched message raised and the next one was
\* still invoked
C11_Witness ==
    /\ lastOp.op = "on_message"
    /\ Len(called) >= 2
    /\ called[1].raises
    /\ ~called[2].raises
    /\ subscriptions # <<>>
    /\ connected

\* C13: async_shutdown leaves the client released (None) and connected false;
\* once it has run both stay so whatever happens next, and a further
\* async_shutdown calls nothing on the client, raises nothing and changes
\* nothing of the coordinator.
C13_ShutdownIdempotent ==
    [][/\ lastOp'.op = "async_shutdown" => (client' = "None" /\ ~connected')
       /\ closed => (closed' /\ client' = "None" /\ ~connected')
       /\ (closed /\ lastOp'.op = "async_shutdown")
            => /\ wire' = <<>>
               /\ ~raised'
               /\ <<client', connected', subscriptions', started', loopRunning',
                     pending'>>
                    = <<client, connected, subscriptions, started, loopRunning,
                        pending>>]_vars

\* a further async_shutdown ran on a coordinator that still holds registrations
C13_Witness ==
    /\ lastOp.op = "async_shutdown"
    /\ closed
    /\ wire = <<>>
    /\ client = "None"
    /\ ~connected
    /\ subscriptions # <<>>

\* C19: in every reachable state every pattern that is a key of the registry
\* has a non-empty callback list, also after an unsubscribe of a callback that
\* was not registered for the pattern.
C19_NoEmptyEntry ==
    \A i \in 1..Len(subscriptions) : subscriptions[i].callbacks # <<>>

\* an unsubscribe removed the last callback of its pattern, which is gone, and
\* another pattern is still registered
C19_Witness ==
    /\ lastOp.op = "unsubscribe"
    /\ lastOp.topic \in released
    /\ ~HasKey(subscriptions, lastOp.topic)
    /\ subscriptions # <<>>

----------------------------------------------------------------------------
(* Claim about the keypad buttons, checked under PressSpec *)

\* C18: in every connection state a press of a keypad button makes exactly one
\* coordinator.publish call, to <vkp-topic>/key with the one-character key as
\* payload, and returns normally; with a client and connected the call puts
\* exactly that publish on the wire, otherwise it puts nothing on the wire.
C18_OnePublishPerPress ==
    [][lastOp'.op = "async_press"
         => /\ Len(attempts') = 1
            /\ attempts'[1].topic = VkpTopic \o <<"/", "k", "e", "y">>
            /\ attempts'[1].payload = lastOp'.payload
            /\ Len(attempts'[1].payload) = 1
            /\ attempts'[1].payload[1] \in KeypadKeys
            /\ ~raised'
            /\ IF client # "None" /\ connected
               THEN /\ Len(wire') = 1
                    /\ wire'[1].op = "publish"
                    /\ wire'[1].topic = attempts'[1].topic
                    /\ wire'[1].payload = attempts'[1].payload
               ELSE wire' = <<>>]_vars

\* a button was pressed while the session was down: one call, nothing sent
C18_Witness ==
    /\ lastOp.op = "async_press"
    /\ client # "None"
    /\ ~connected
    /\ Len(attempts) = 1
    /\ wire = <<>>
    /\ ~raised

----------------------------------------------------------------------------
(* Claims about the printer log sensor, checked under PrinterSpec and RenderSpec *)

\* the payloads of a sequence that are not empty
RECURSIVE NonEmpty(_)
NonEmpty(payloads) ==
    IF payloads = <<>> THEN <<>>
    ELSE IF Head(payloads) = <<>> THEN NonEmpty(Tail(payloads))
    ELSE <<Head(payloads)>> \o NonEmpty(Tail(payloads))

Stripped(payloads) == [i \in 1..Len(payloads) |-> Strip(payloads[i])]

\* C15 as stated: after any sequence of non-empty log lines the buffer holds at
\* most 10 lines, and they are exactly the last min(n, 10) lines received, in
\* arrival order.
C15_AsStated ==
    /\ Len(log_lines) <= MaxLines
    /\ log_lines = LastN(NonEmpty(received), MaxLines)

\* C15 amended: the buffer holds at most 10 lines, and they are the last
\* min(n, 10) non-empty lines received, each without its leading and trailing
\* whitespace, in arrival order with the newest last.
C15_LastTenStripped ==
    /\ Len(log_lines) <= MaxLines
    /\ Len(log_lines) = IF Len(NonEmpty(received)) < MaxLines
                        THEN Len(NonEmpty(received)) ELSE MaxLines
    /\ log_lines = LastN(Stripped(NonEmpty(received)), MaxLines)

\* twelve lines were pushed and the buffer holds the third to the twelfth
C15_Witness ==
    /\ Len(received) = 12
    /\ Len(log_lines) = MaxLines
    /\ \A i \in 1..MaxLines : log_lines[i] = Strip(received[i + 2])
    /\ log_lines[1] # log_lines[MaxLines]

\* C16 as stated: when the joined buffer is longer than 255 characters the
\* rendered value is the joined buffer cut to at most 255 characters and ends
\* with "..."; when it is not longer, the rendered value is the joined buffer.
C16_AsStated ==
    LET joined == Join(log_lines)
        value == native_value(printer_state)
    IN IF Len(joined) > StateLimit
       THEN /\ value = Truncate(joined)
            /\ Len(value) <= StateLimit
       ELSE value = joined

\* C16 amended: when the joined buffer is longer than 255 characters the
\* rendered value is the newest line alone, cut to its first 252 characters
\* followed by "..." if that line is itself longer than 255 characters; when
\* the joined buffer is not longer, the rendered value is the joined buffer.
\* The rendered value is never longer than 255 characters.
C16_NewestLineWhenLong ==
    LET joined == Join(log_lines)
        value == native_value(printer_state)
        newest == log_lines[Len(log_lines)]
    IN /\ Len(value) <= StateLimit
       /\ IF Len(joined) > StateLimit
          THEN IF Len(newest) > StateLimit
               THEN value = SubSeq(newest, 1, KeptChars) \o Ellipsis
               ELSE value = newest
          ELSE value = joined

\* the joined buffer passed the limit with a newest line below the limit, and
\* the rendered value is that line without a marker
C16_Witness ==
    /\ Len(log_lines) >= 2
    /\ Len(Join(log_lines)) > StateLimit
    /\ Len(log_lines[Len(log_lines)]) <= StateLimit
    /\ native_value(printer_state) = log_lines[Len(log_lines)]
    /\ native_value(printer_state) # Truncate(Join(log_lines))

----------------------------------------------------------------------------
(* Claims about the entities, checked under BridgeSpec *)

\* the event loop has still something to run for the entity
Outstanding(queue, e) == \E i \in 1..Len(queue) : queue[i].entity = e

\* C12: the updates of an entity run on the event loop in the order in which
\* the messages were received on its topic: an update never runs after the
\* update of a later message, and what is still to run is later than what has
\* run; so once nothing is left to run for the entity, its state is the one
\* derived from the last message received on its topic.
C12_OrderAcrossBridge ==
    [][\A e \in Entities :
         /\ applied'[e] >= applied[e]
         /\ \A i \in 1..Len(ready') :
               ready'[i].entity = e => ready'[i].id > applied'[e]
         /\ \A i, j \in 1..Len(ready') :
               (i < j /\ ready'[i].entity = e /\ ready'[j].entity = e
                      /\ ready'[i].kind = ready'[j].kind)
                  => ready'[i].id < ready'[j].id
         /\ (lastSeen'[e].id # 0 /\ ~Outstanding(ready', e))
               => /\ applied'[e] = lastSeen'[e].id
                  /\ entity_state'[e] = HandOff(e, Decode(lastSeen'[e].raw))]_vars

\* the update of the first message of the zone has run and the update of its
\* second message, which gives another state, is the next to run
C12_Witness ==
    /\ applied["zone"] = 1
    /\ lastSeen["zone"].id = 2
    /\ Len(ready) = 1
    /\ ready[1].entity = "zone"
    /\ ready[1].id = 2
    /\ ready[1].value # entity_state["zone"]

\* the same letter, in either case
SameLetter(c, d) ==
    \/ c = d
    \/ \E i \in 1..Len(Lowercase) :
          {c, d} = {Lowercase[i], Uppercase[i]}

\* the payload, trimmed, is the token in any mix of cases
IsToken(payload, token) ==
    LET t == Strip(payload)
    IN /\ Len(t) = Len(token)
       /\ \A i \in 1..Len(token) : SameLetter(t[i], token[i])

\* C14: once the messages received on the topic of a zone have been processed,
\* the zone is open exactly when the last payload, trimmed and compared without
\* regard to case, is OPEN, and an output is on exactly when it is ON; no
\* payload makes the dispatch or a handler raise.
C14_TokenDecidesState ==
    /\ ~raised
    /\ \A i \in 1..Len(called) : ~called[i].raises
    /\ (lastSeen["zone"].id # 0 /\ ~Outstanding(ready, "zone"))
         => entity_state["zone"]
               = IsToken(Decode(lastSeen["zone"].raw), <<"O", "P", "E", "N">>)
    /\ (lastSeen["output"].id # 0 /\ ~Outstanding(ready, "output"))
         => entity_state["output"]
               = IsToken(Decode(lastSeen["output"].raw), <<"O", "N">>)

\* the zone is open after Open\n and the output is on after " on"
C14_Witness ==
    /\ ready = <<>>
    /\ lastSeen["zone"].raw = <<79, 112, 101, 110, 10>>
    /\ entity_state["zone"]
    /\ lastSeen["output"].raw = <<32, 111, 110>>
    /\ entity_state["output"]

----------------------------------------------------------------------------
(* Claim about discovery, checked under DiscoverySpec *)

\* the integers that are the trailing segment of those of the topics that
\* match <subsystem-topic>/+
TrailingIntegers(topics) ==
    {IntOf(Split(t)[Len(Split(t))]) :
        t \in {u \in topics :
                 /\ SegmentwiseEqual(u, DiscoveryTopic)
                 /\ IsNumeral(Split(u)[Len(Split(u))])}}

\* C17: the set a discovery routine returns is the set of the integers that
\* are the trailing segment of the topics of the messages matching
\* <subsystem-topic>/+ received during the window; a topic received more than
\* once adds nothing, a trailing segment that is no number is ignored, and no
\* message makes the dispatch or the handler raise.
C17_DiscoveryResult ==
    /\ ~raised
    /\ \A i \in 1..Len(called) : ~called[i].raises
    /\ disc_pc = "done" => returned = TrailingIntegers(windowTopics)
    /\ disc_pc = "window" => discovered = TrailingIntegers(windowTopics)

\* the routine returned {5, 9} after a window with output 5 more than once,
\* output 9 and a tail that is no number
C17_Witness ==
    /\ disc_pc = "done"
    /\ windowTopics = {<<"o", "/", "5">>, <<"o", "/", "9">>, <<"o", "/", "x">>}
    /\ windowRepeats = {<<"o", "/", "5">>}
    /\ returned = {5, 9}

----------------------------------------------------------------------------
(* Claim about the interleaving of dispatch and registration, checked under
   RaceSpec *)

\* C20: whatever subscribe and unsubscribe calls run on the event loop while
\* the paho thread dispatches a message, on_message ends without an exception:
\* no KeyError because the key went away between the membership test and the
\* fetch of its callbacks, no RuntimeError because the dict changed during the
\* wildcard scan.
C20_DispatchNeverRaises ==
    /\ d_pc # "raised"
    /\ d_error = "none"

----------------------------------------------------------------------------
(* Claims about the connection state, checked under Spec *)

\* one of the calls w made on the client is a call of name
Issues(w, name) == \E i \in 1..Len(w) : w[i].op = name

\* C21: connected goes from false to true only in an on_connect with result
\* code 0; it goes from true to false only in on_disconnect, in an on_connect
\* with another code, in a connect attempt that failed, or in async_shutdown;
\* subscribe, unsubscribe, publish and on_message leave it as it was.
C21_ConnectedTransitions ==
    [][/\ (~connected /\ connected')
            => (lastOp'.op = "on_connect" /\ lastOp'.rc = 0)
       /\ (connected /\ ~connected')
            => \/ lastOp'.op \in {"on_disconnect", "async_shutdown"}
               \/ lastOp'.op = "on_connect" /\ lastOp'.rc # 0
               \/ lastOp'.op = "connect_mqtt" /\ ~loopRunning'
       /\ lastOp'.op \in {"subscribe", "unsubscribe", "publish", "on_message"}
            => connected' = connected]_vars

\* a publish whose client.publish raised ran in a session and left it up
C21_Witness ==
    /\ lastOp.op = "publish"
    /\ connected
    /\ Len(wire) = 1
    /\ wire[1].result = "exc"
    /\ subscriptions # <<>>

\* C22: an on_connect with result code 5 or another non-zero code leaves
\* connected false and issues no client.subscribe; a connect call that answers
\* an error code or raises leaves connected false, starts no network loop and
\* issues no client.subscribe, and from then on connected stays false and no
\* client.subscribe is issued; once _connect_mqtt has run, no operation of the
\* coordinator calls client.connect again.
C22_FailedConnectTerminal ==
    [][/\ (lastOp'.op = "on_connect" /\ lastOp'.rc # 0)
            => (~connected' /\ wire' = <<>>)
       /\ (lastOp'.op = "connect_mqtt" /\ Issues(wire', "connect")
              /\ wire'[1].result # "ok")
            => (~connected' /\ ~loopRunning' /\ ~Issues(wire', "subscribe"))
       /\ (started' /\ ~loopRunning')
            => (~connected' /\ ~Issues(wire', "subscribe"))
       /\ started => ~Issues(wire', "connect")]_vars

\* the broker refused the session as not authorised while the registry held a
\* pattern: nothing was subscribed
C22_Witness ==
    /\ lastOp.op = "on_connect"
    /\ lastOp.rc = 5
    /\ subscriptions # <<>>
    /\ ~connected
    /\ wire = <<>>

----------------------------------------------------------------------------
(* Claim about the context a callback writes in, checked under DiscoverySpec *)

\* the steps the paho network thread runs: the callbacks of the client, with
\* the registered callbacks on_message calls
BrokerContextStep ==
    \/ on_connect
    \/ on_disconnect
    \/ on_message
    \/ entity_message
    \/ discovery_message

\* C23: no step of the paho network thread writes what the consumer owns: the
\* state of an entity and the set a discovery handler fills change only in
\* steps of the event loop.
C23_ConsumerStateOnConsumerContext ==
    [][BrokerContextStep
         => (entity_state' = entity_state /\ discovered' = discovered)]_vars

----------------------------------------------------------------------------
(* Claim about the delivery of updates, checked under BridgeFairSpec *)

\* C24: under a fair event loop, whenever a message was received on the topic
\* of an entity that has subscribed and its update has not run, the entity
\* eventually has run the update of the last message received on its topic
\* (the updates of one entity run in the order of the messages, so the update
\* of every message has run by then); and as long as the update of the last
\* message has not run, its hand-off or its task is among what the event loop
\* has still to run.
C24_UpdateEventuallyRuns ==
    /\ \A e \in Entities :
          (applied[e] < lastSeen[e].id) ~> (applied[e] = lastSeen[e].id)
    /\ [](\A e \in Entities :
             applied[e] < lastSeen[e].id
                => \E i \in 1..Len(ready) :
                      ready[i].entity = e /\ ready[i].id = lastSeen[e].id)

\* the update of the last message has run for the zone and nothing is left to
\* run, after two messages on its topic
C24_Witness ==
    /\ msgs = MaxMessages
    /\ lastSeen["zone"].id = MaxMessages
    /\ applied["zone"] = MaxMessages
    /\ ready = <<>>

----------------------------------------------------------------------------
(* Claims about the dispatch of a message, checked under Spec *)

\* no pattern of the registry equals the topic or matches it
Unresolved(subs, topic) ==
    /\ ~HasKey(subs, topic)
    /\ \A i \in 1..Len(subs) : ~topic_matches(topic, subs[i].pattern)

\* C25: the dispatch of a message whose topic no pattern of the registry
\* equals or matches invokes no callback, raises nothing, schedules nothing
\* on the event loop and leaves the registry, the connected flag and the
\* state of every entity as they were.
C25_UnmatchedDropped ==
    [][(lastOp'.op = "on_message" /\ Unresolved(subscriptions, lastOp'.topic))
         => /\ called' = <<>>
            /\ ~raised'
            /\ wire' = <<>>
            /\ subscriptions' = subscriptions
            /\ connected' = connected
            /\ entity_state' = entity_state
            /\ ready' = ready]_vars

\* a message on a topic that neither of the two registered patterns equals or
\* matches was dispatched to nobody
C25_Witness ==
    /\ lastOp.op = "on_message"
    /\ Len(subscriptions) = 2
    /\ Unresolved(subscriptions, lastOp.topic)
    /\ called = <<>>
    /\ connected

\* the text is the repr of a bytes object: b'...'
IsBytesRepr(text) ==
    /\ Len(text) >= 3
    /\ text[1] = "b"
    /\ text[2] = "'"
    /\ text[Len(text)] = "'"

\* C26: the dispatch of a message whose payload is not valid UTF-8 invokes the
\* callbacks the topic resolves to, the same and in the same order as for a
\* payload that decodes, each with the topic and with the repr of the bytes
\* (b'\xff' for the byte 0xff) as payload, and raises nothing.
C26_UndecodableDispatched ==
    [][(lastOp'.op = "on_message" /\ ~ValidUtf8(lastOp'.payload))
         => /\ CallbacksOf(called') = Resolve(subscriptions, lastOp'.topic)
            /\ \A i \in 1..Len(called') :
                  /\ called'[i].topic = lastOp'.topic
                  /\ IsBytesRepr(called'[i].payload)
                  /\ lastOp'.payload = <<255>>
                        => called'[i].payload = <<"b", "'", "\\", "x", "f", "f", "'">>
            /\ ~raised'
            /\ subscriptions' = subscriptions]_vars

\* a message of payload 0xff was dispatched to the two callbacks of its topic
C26_Witness ==
    /\ lastOp.op = "on_message"
    /\ lastOp.payload = <<255>>
    /\ Len(called) = 2
    /\ called[1].payload = <<"b", "'", "\\", "x", "f", "f", "'">>
    /\ called[2].payload = called[1].payload
    /\ ~raised

----------------------------------------------------------------------------
(* Claim about the replay on connect, checked under Spec *)

\* C27: in the replay of an on_connect with result code 0, a client.subscribe
\* that reports failure for a pattern is followed by a client.subscribe for
\* every pattern after it in registry order; connected is true afterwards and
\* the registry, the failed pattern included, is as it was.
C27_ReplayGoesOnAfterFailure ==
    [][(lastOp'.op = "on_connect" /\ lastOp'.rc = 0)
         => /\ connected'
            /\ subscriptions' = subscriptions
            /\ Len(wire') = Len(subscriptions)
            /\ \A i \in 1..Len(wire') :
                  wire'[i].result = "err"
                    => /\ HasKey(subscriptions', wire'[i].topic)
                       /\ \A j \in (i+1)..Len(subscriptions) :
                             /\ wire'[j].op = "subscribe"
                             /\ wire'[j].topic = subscriptions[j].pattern]_vars

\* the subscribe of the first of two patterns failed in a replay and the
\* subscribe of the second was issued and succeeded
C27_Witness ==
    /\ lastOp.op = "on_connect"
    /\ lastOp.rc = 0
    /\ Len(subscriptions) = 2
    /\ Len(wire) = 2
    /\ wire[1].result = "err"
    /\ wire[2].result = "ok"
    /\ wire[2].topic = subscriptions[2].pattern
    /\ connected

----------------------------------------------------------------------------
(* Claims about registration, checked under Spec *)

\* C28: while connected there is a client; a subscribe made while connected
\* issues one client.subscribe, for its pattern and with QoS 0, within the
\* call; an unsubscribe made while connected issues one client.unsubscribe
\* for its pattern when the callback is the only one the pattern holds, and
\* nothing when other callbacks stay registered for the pattern, when the
\* callback is not registered for it or when the pattern is not registered.
C28_WireWhileConnected ==
    [][connected
         => /\ client # "None"
            /\ lastOp'.op = "subscribe"
                 => /\ Len(wire') = 1
                    /\ wire'[1].op = "subscribe"
                    /\ wire'[1].topic = lastOp'.topic
                    /\ wire'[1].qos = 0
            /\ lastOp'.op = "unsubscribe"
                 => wire' = IF RemovesLast
                            THEN <<WireOp("unsubscribe", lastOp'.topic, NoPayload, "ok")>>
                            ELSE <<>>]_vars

\* an unsubscribe made while connected removed one of the two registrations of
\* a callback under a pattern and issued nothing
C28_Witness ==
    /\ lastOp.op = "unsubscribe"
    /\ connected
    /\ wire = <<>>
    /\ HasKey(subscriptions, lastOp.topic)
    /\ subscriptions[IndexOf(subscriptions, lastOp.topic)].callbacks = <<lastOp.cb>>

\* the callbacks registered under a pattern, none when it is no key
ListOf(subs, topic) ==
    IF HasKey(subs, topic) THEN subs[IndexOf(subs, topic)].callbacks ELSE <<>>

\* how many records of the list are the callback
Count(list, cb) == Cardinality({i \in 1..Len(list) : list[i] = cb})

\* after is before without the first record that is the callback
FirstRecordRemoved(before, after, cb) ==
    \E k \in 1..Len(before) :
        /\ before[k] = cb
        /\ \A j \in 1..(k-1) : before[j] # cb
        /\ after = SubSeq(before, 1, k-1) \o SubSeq(before, k+1, Len(before))

\* C29: subscribe adds one record at the end of the pattern's list, whether the
\* callback is already in it or not; the dispatch of a message invokes one
\* callback per record of the resolved list, in the order of the records, so
\* a callback that has k records is invoked k times; an unsubscribe of a
\* callback the pattern holds removes its first record and no other, so the
\* callback has one record less, and an unsubscribe of a callback the pattern
\* does not hold leaves the registry as it was.
C29_RecordsInOrder ==
    [][/\ lastOp'.op = "subscribe"
            => ListOf(subscriptions', lastOp'.topic)
                  = Append(ListOf(subscriptions, lastOp'.topic), lastOp'.cb)
       /\ lastOp'.op = "on_message"
            => /\ CallbacksOf(called') = Resolve(subscriptions, lastOp'.topic)
               /\ \A cb \in Callbacks :
                     Count(CallbacksOf(called'), cb)
                        = Count(Resolve(subscriptions, lastOp'.topic), cb)
       /\ lastOp'.op = "unsubscribe"
            => IF InList(ListOf(subscriptions, lastOp'.topic), lastOp'.cb)
               THEN /\ FirstRecordRemoved(ListOf(subscriptions, lastOp'.topic),
                                          ListOf(subscriptions', lastOp'.topic),
                                          lastOp'.cb)
                    /\ Count(ListOf(subscriptions', lastOp'.topic), lastOp'.cb)
                          = Count(ListOf(subscriptions, lastOp'.topic), lastOp'.cb) - 1
               ELSE subscriptions' = subscriptions]_vars

\* a message was dispatched to a pattern that holds a callback twice, with
\* another callback between its two records: it was invoked twice, the
\* callbacks in the order of the records
C29_Witness ==
    /\ lastOp.op = "on_message"
    /\ ListOf(subscriptions, RecordPattern) = <<"cb1", "cb2", "cb1">>
    /\ CallbacksOf(called) = <<"cb1", "cb2", "cb1">>

----------------------------------------------------------------------------
(* Claim about the discovery routine as a whole, checked under
   DiscoveryFairSpec *)

\* the records of the discovery handler in the registry: entry and position
\* in the list of the entry
HandlerRecords(subs) ==
    {r \in (1..Len(subs)) \X (1..TotalRegistrations(subs)) :
        /\ r[2] <= Len(subs[r[1]].callbacks)
        /\ subs[r[1]].callbacks[r[2]] = DiscoveryHandler}

\* the handler has one record, the first under the pattern of the routine
OneRecord(subs) ==
    /\ HasKey(subs, DiscoveryTopic)
    /\ HandlerRecords(subs) = {<<IndexOf(subs, DiscoveryTopic), 1>>}

\* C30: a discovery routine that was called returns; while it waits for the
\* session, in at most 10 polls, and after it has returned, its handler has no
\* record in the registry, and during the window it has exactly one, under
\* <subsystem-topic>/+; a routine that returns from the wait loop has made 10
\* polls, has changed nothing of the registry and returns the empty set; the
\* unsubscribe at the end of the window removes the one record and nothing
\* else; once the routine has returned no message invokes its handler and the
\* set it returned stays as it is.
C30_DiscoveryTerminatesClean ==
    /\ (disc_pc # "idle") ~> (disc_pc = "done")
    /\ [](polls <= WaitTurns)
    /\ [](disc_pc \in {"idle", "poll", "done"} => HandlerRecords(subscriptions) = {})
    /\ [](disc_pc = "window" => OneRecord(subscriptions))
    /\ [][/\ (disc_pc = "poll" /\ disc_pc' = "done")
               => /\ polls' = WaitTurns
                  /\ returned' = {}
                  /\ subscriptions' = subscriptions
          /\ (disc_pc = "window" /\ disc_pc' = "done")
               => /\ ListOf(subscriptions, DiscoveryTopic) = <<DiscoveryHandler>>
                  /\ subscriptions' = DelKey(subscriptions, DiscoveryTopic)
          /\ disc_pc = "done"
               => /\ disc_pc' = "done"
                  /\ returned' = returned
                  /\ discovered' = discovered
                  /\ \A i \in 1..Len(called') :
                        called'[i].cb # DiscoveryHandler]_vars

\* the routine has subscribed, collected output 9 and returned, the pattern is
\* gone from the registry, and a later message on the topic of output 5 was
\* dispatched to nobody
C30_Witness ==
    /\ disc_pc = "done"
    /\ DiscoveryTopic \in released
    /\ subscriptions = <<>>
    /\ returned = {9}
    /\ lastOp.op = "on_message"
    /\ lastOp.topic = <<"o", "/", "5">>
    /\ called = <<>>
    /\ discovered = {9}

----------------------------------------------------------------------------
(* Claim about an unsubscribe of what is not registered, checked under Spec *)

\* C37: an unsubscribe whose pattern is no key of the registry, or whose
\* callback is not in the list of the pattern, leaves the registry and the
\* connection state as they were, calls nothing on the client and raises
\* nothing.
C37_UnsubscribeUnknownNoOp ==
    [][(lastOp'.op = "unsubscribe"
          /\ ~InList(ListOf(subscriptions, lastOp'.topic), lastOp'.cb))
         => /\ subscriptions' = subscriptions
            /\ wire' = <<>>
            /\ ~raised'
            /\ connected' = connected
            /\ client' = client]_vars

\* an unsubscribe made while connected named a callback that is not among the
\* two the pattern holds, and nothing was issued
C37_Witness ==
    /\ lastOp.op = "unsubscribe"
    /\ connected
    /\ Len(ListOf(subscriptions, lastOp.topic)) = MaxRegistrations
    /\ ~InList(ListOf(subscriptions, lastOp.topic), lastOp.cb)
    /\ wire = <<>>
    /\ ~raised

----------------------------------------------------------------------------
(* Claim about the removal of an entity, checked under RemovalSpec *)

\* C31: the callback of an entity the host has removed is in no callback list
\* of the registry, and no message dispatched after the removal invokes it.
C31_RemovedEntityUnregistered ==
    /\ [](\A e \in removed : \A i \in 1..Len(subscriptions) :
              ~InList(subscriptions[i].callbacks, e))
    /\ [][entity_message
            => \A i \in 1..Len(called') : called'[i].cb \notin removed]_vars

----------------------------------------------------------------------------
(* Claim about the entities a message reaches, checked under NumberedSpec *)

\* C35: with each entity registered on its own topic, the dispatch of a
\* message schedules hand-offs only for the entity whose topic is the topic of
\* the message and changes the state of no entity; the state of an entity
\* changes only when the event loop runs an update that stems from a message
\* on the topic of that entity, so a message for a zone or an output leaves
\* the state of the entities of another number or another subsystem as it was.
C35_OnlyAddressedEntity ==
    [][/\ numbered_message
            => /\ entity_state' = entity_state
               /\ Len(ready') >= Len(ready)
               /\ \A i \in (Len(ready) + 1)..Len(ready') :
                     /\ ready'[i].topic = lastOp'.topic
                     /\ EntityTopic(ready'[i].entity) = lastOp'.topic
       /\ \A i \in 1..Len(ready') :
             EntityTopic(ready'[i].entity) = ready'[i].topic
       /\ \A e \in AllEntities :
             entity_state'[e] # entity_state[e]
                => /\ ready # <<>>
                   /\ Head(ready).kind = "task"
                   /\ Head(ready).entity = e
                   /\ Head(ready).topic = EntityTopic(e)]_vars

\* with both zones and the output added, a message on the topic of zone 1 has
\* opened zone 1 and left zone 2 and output 1 as they were
C35_Witness ==
    /\ added = NumberedEntities
    /\ msgs = 1
    /\ applied["zone"] = 1
    /\ entity_state["zone"]
    /\ ~entity_state["zone2"]
    /\ ~entity_state["output"]
    /\ ready = <<>>

\* C36: a command of the switch makes one publish attempt, of OPEN for
\* async_turn_on and CLOSED for async_turn_off, on the write topic, nothing is
\* raised, and is_on is the commanded state whether or not the publish went
\* on the wire; an update scheduled by a message on the read topic sets is_on
\* to what that message said when it runs
C36_SwitchOptimistic ==
    [][/\ switch_turn
          => /\ lastOp'.op \in {"async_turn_on", "async_turn_off"}
             /\ Len(attempts') = 1
             /\ attempts'[1].topic = ZoneWriteTopic
             /\ attempts'[1].payload = IF lastOp'.op = "async_turn_on"
                                       THEN <<"O", "P", "E", "N">>
                                       ELSE <<"C", "L", "O", "S", "E", "D">>
             /\ entity_state'["switch"] = (lastOp'.op = "async_turn_on")
             /\ ~raised'
             /\ IF client # "None" /\ connected
                THEN /\ Len(wire') = 1
                     /\ wire'[1].op = "publish"
                     /\ wire'[1].topic = ZoneWriteTopic
                     /\ wire'[1].payload = attempts'[1].payload
                ELSE wire' = <<>>
       /\ (run_task /\ Head(ready).entity = "switch")
          => /\ entity_state'["switch"] = Head(ready).value
             /\ Head(ready).id = lastSeen["switch"].id
                  => Head(ready).value
                        = (Upper(Strip(Decode(lastSeen["switch"].raw)))
                              = <<"O", "P", "E", "N">>)]_vars

\* the switch was turned on while the session was down: the publish was
\* dropped and the switch is on
C36_Witness ==
    /\ lastOp.op = "async_turn_on"
    /\ ~connected
    /\ wire = <<>>
    /\ Len(attempts) = 1
    /\ entity_state["switch"]

\* the switch was turned on and the update of a CLOSED message on the read
\* topic has run after it: the switch is off
C36_WitnessOverride ==
    /\ lastOp.op = "on_message"
    /\ attempts = ZoneCalls(TRUE)
    /\ applied["switch"] = lastSeen["switch"].id
    /\ applied["switch"] > 0
    /\ ~entity_state["switch"]

----------------------------------------------------------------------------
(* Claims about on_connect against subscribe and unsubscribe, checked under
   ConnectRaceSpec *)

\* no operation of the coordinator is under way
Quiet == c_pc = "idle" /\ e_pc = "idle"

\* C32: whenever on_connect and subscribe have both finished and the session
\* is up, every registered pattern has had a client.subscribe call since the
\* session began, from the replay or from subscribe itself
C32_NoSubscriptionLost ==
    (Quiet /\ connected)
        => \A i \in 1..Len(subscriptions) : tried[subscriptions[i].pattern] # {}

\* one subscribe call ran across an on_connect: the replay has just ended,
\* and in this session the pattern was sent both by the replay and by
\* subscribe
C32_Witness ==
    /\ Quiet
    /\ connected
    /\ lastOp.op = "on_connect"
    /\ wire # <<>>
    /\ \E i \in 1..Len(subscriptions) :
            tried[subscriptions[i].pattern] = {"replay", "subscribe"}

\* C33: whenever on_connect and unsubscribe have both finished and the
\* session is up, no pattern that is not in the registry has a subscribe as
\* the last call made for it on the client in this session
C33_NoOrphanSubscription ==
    (Quiet /\ connected)
        => \A p \in Patterns :
              ~HasKey(subscriptions, p) => lastWire[p] # "subscribe"

----------------------------------------------------------------------------
(* Claim about the callback loop of on_message against unsubscribe, checked
   under IterSpec *)

\* C34: when the loop over the callbacks of a message has ended, every
\* callback that was in the list when it began and was not removed since has
\* been called
C34_StayingCallbackInvoked ==
    it_pc = "done" => it_stayed \subseteq it_invoked

============================================================================
